---- MODULE Spec2Model ----
(***************************************************************************)
(* Kakeibo Lens: the entry store (lib/storage.ts), the scan ingestion flow *)
(* (app/(tabs)/scan.tsx), the CSV export handler (settings screen) and the *)
(* monthly aggregation of the home screen, as state machines.              *)
(*                                                                         *)
(* Japanese text of the source is written in romaji, since the strings of  *)
(* this notation are ASCII:                                                *)
(*   shokuhi = 食費, nichiyouhin = 日用品, koutsuuhi = 交通費,             *)
(*   goraku = 娯楽, iryouhi = 医療費, kyouikuhi = 教育費,                  *)
(*   kounetsuhi = 光熱費, tsuushinhi = 通信費, sonota = その他.            *)
(***************************************************************************)
EXTENDS Integers, Sequences, FiniteSets, TLC

VARIABLES
    \* ---- calculateMonthlySummary (home screen), as a pure function ----
    argEntries,       \* the `entries` argument
    argCategories,    \* the `categories` argument
    argYear,          \* the `year` argument
    argMonth,         \* the `month` argument
    monthlySummary,   \* HomeScreen state: <<>> (null) or <<summary>>
    \* ---- AsyncStorage ----
    entriesItem,      \* value under STORAGE_KEYS.ENTRIES: <<>> (null) or <<text>>
    categoriesItem,   \* value under STORAGE_KEYS.CATEGORIES: <<>> (null) or <<text>>
    \* ---- entry identifiers ----
    nextId,           \* the next `entry_${Date.now()}_${random}`, as a number
    \* ---- a caller of the store's operations (lib/storage.ts) ----
    client,           \* the operation in progress and its position
    \* ---- ScanScreen (app/(tabs)/scan.tsx) ----
    isAnalyzing,      \* useState(false)
    scan,             \* the invocations of its handlers, by position
    \* ---- SettingsScreen ----
    isExporting,      \* useState(false)
    export,           \* the invocation of handleExportCSV
    \* ---- normalizeCategoryName (lib/ai-analysis.ts), as a pure function ----
    argSuggested,     \* the `suggestedCategory` argument: <<>> (undefined) or <<text>>
    normalizedName,   \* what the call returned: <<>> (not called yet) or <<name>>
    \* ---- AnalyticsScreen (app/(tabs)/analytics.tsx) ----
    timezoneOffset,   \* Date.prototype.getTimezoneOffset() of the device, minutes
    currentYear,      \* useState(new Date().getFullYear())
    currentMonth,     \* useState(new Date().getMonth() + 1)
    trend,            \* the invocation of getMonthlyTrendData
    trendData,        \* useState({ data: [], labels: [] })
    categoryData,     \* what getCategoryData returned: <<>> (not called) or <<list>>
    monthlyEntries,   \* useState<KakeiboEntry[]>([])
    pendingLoads,     \* the loadData and getMonthlyTrendData calls in progress
    loadFailed,       \* a read of one of these calls failed
    renders,          \* the renders of AnalyticsScreen whose effects have run
    \* ---- a screen that reads the categories (loadData) ----
    reader,           \* its call of loadCategories
    defaultWrites     \* setItem calls that wrote the default categories so far

summaryVars == <<argEntries, argCategories, argYear, argMonth, monthlySummary>>

storageVars == <<entriesItem, categoriesItem>>

scanVars == <<isAnalyzing, scan>>

exportVars == <<isExporting, export>>

normalizerVars == <<argSuggested, normalizedName>>

analyticsVars == <<timezoneOffset, currentYear, currentMonth, trend, trendData>>

readerVars == <<reader, defaultWrites>>

screenVars == <<categoryData, monthlyEntries, pendingLoads, loadFailed, renders>>

vars == <<summaryVars, storageVars, nextId, client, scanVars, exportVars,
          normalizerVars, analyticsVars, readerVars, screenVars>>

(***************************************************************************)
(* Bounds of the model.                                                    *)
(***************************************************************************)
MaxEntries == 3      \* longest entry list handed to calculateMonthlySummary
MaxCats == 2         \* longest category list handed to calculateMonthlySummary
MaxIds == 3          \* entry identifiers generated in one run
MaxDefaultWrites == 2    \* writes of the default categories that are counted
MaxAdded == 2            \* categories added to the nine default ones
MaxWords == 2            \* pieces of a category guess

(***************************************************************************)
(* Generic helpers.                                                        *)
(***************************************************************************)
SeqsUpTo(S, n) == UNION {[1..k -> S] : k \in 0..n}

RECURSIVE SumSeq(_)
SumSeq(s) == IF s = <<>> THEN 0 ELSE s[1] + SumSeq(Tail(s))

Range(s) == {s[i] : i \in DOMAIN s}

(***************************************************************************)
(* Category ids and names.                                                 *)
(***************************************************************************)
\* types/kakeibo.ts DEFAULT_CATEGORIES, in declaration order
DEFAULT_CATEGORIES ==
    << [name |-> "shokuhi", color |-> "#FF6B6B"],
       [name |-> "nichiyouhin", color |-> "#4ECDC4"],
       [name |-> "koutsuuhi", color |-> "#45B7D1"],
       [name |-> "goraku", color |-> "#FFA07A"],
       [name |-> "iryouhi", color |-> "#98D8C8"],
       [name |-> "kyouikuhi", color |-> "#F7DC6F"],
       [name |-> "kounetsuhi", color |-> "#BB8FCE"],
       [name |-> "tsuushinhi", color |-> "#85C1E2"],
       [name |-> "sonota", color |-> "#95A5A6"] >>

\* `default_${index}` of loadCategories, index 0-based
DefaultId(index) ==
    CASE index = 0 -> "default_0" [] index = 1 -> "default_1"
      [] index = 2 -> "default_2" [] index = 3 -> "default_3"
      [] index = 4 -> "default_4" [] index = 5 -> "default_5"
      [] index = 6 -> "default_6" [] index = 7 -> "default_7"
      [] index = 8 -> "default_8"

(***************************************************************************)
(* calculateMonthlySummary.                                                *)
(***************************************************************************)
\* entries.reduce((sum, entry) => sum + entry.amount, 0)
TotalAmount(entries) == SumSeq([i \in DOMAIN entries |-> entries[i].amount])

\* Keys of categoryMap in insertion order: Map.set on a key that is already
\* present keeps the key's position.
RECURSIVE CategoryMapKeys(_)
CategoryMapKeys(categories) ==
    IF categories = <<>> THEN <<>>
    ELSE LET n == Len(categories)
             front == CategoryMapKeys(SubSeq(categories, 1, n - 1))
         IN IF categories[n].id \in Range(front) THEN front
            ELSE Append(front, categories[n].id)

\* Value of categoryMap for a key: the last category with that id wrote it.
CategoryMapValue(categories, id) ==
    LET last == CHOOSE i \in DOMAIN categories :
                    /\ categories[i].id = id
                    /\ \A j \in DOMAIN categories :
                           categories[j].id = id => j <= i
    IN categories[last]

\* Mutant: the amount of every entry is added to every category.
CategoryAmountUnmatched(entries, id) ==
    SumSeq([i \in DOMAIN entries |-> entries[i].amount])

\* entries.forEach: cat.amount += entry.amount for the entries of category id
CategoryAmount(entries, id) ==
    SumSeq([i \in DOMAIN entries |->
               IF entries[i].categoryId = id THEN entries[i].amount ELSE 0])

\* A quotient of two integers, kept exact: num / den.  den = 0 stands for the
\* result of a division by zero (NaN or an infinity).
Ratio(n, d) == [num |-> n, den |-> d]

\* Mutant: the quotient is not scaled to a percentage.
PercentageUnscaled(amount, totalAmount) ==
    IF totalAmount > 0 THEN Ratio(amount, totalAmount) ELSE Ratio(0, 1)

\* Mutant: the division without the guard on totalAmount.
PercentageUnguarded(amount, totalAmount) == Ratio(amount * 100, totalAmount)

\* totalAmount > 0 ? (data.amount / totalAmount) * 100 : 0
Percentage(amount, totalAmount) ==
    IF totalAmount > 0 THEN Ratio(amount * 100, totalAmount) ELSE Ratio(0, 1)

\* Array.from(categoryMap.entries()).map(...): one item per key
MappedBreakdown(entries, categories) ==
    LET keys == CategoryMapKeys(categories)
        total == TotalAmount(entries)
    IN [i \in DOMAIN keys |->
           LET data == CategoryMapValue(categories, keys[i])
               amt == CategoryAmount(entries, keys[i])
           IN [categoryId |-> keys[i],
               categoryName |-> data.name,
               categoryColor |-> data.color,
               amount |-> amt,
               percentage |-> Percentage(amt, total)]]

\* .filter((item) => item.amount > 0)
KeepItem(item) == item.amount > 0

\* Mutant: an item is inserted before the items of equal amount.
RECURSIVE InsertBeforeEqualAmount(_, _)
InsertBeforeEqualAmount(sorted, item) ==
    IF sorted = <<>> THEN <<item>>
    ELSE IF sorted[1].amount > item.amount
         THEN <<sorted[1]>> \o InsertBeforeEqualAmount(Tail(sorted), item)
         ELSE <<item>> \o sorted

\* Insertion of one item into a list sorted by amount descending, after the
\* items of equal amount (a stable sort).
RECURSIVE InsertByAmountDesc(_, _)
InsertByAmountDesc(sorted, item) ==
    IF sorted = <<>> THEN <<item>>
    ELSE IF sorted[1].amount >= item.amount
         THEN <<sorted[1]>> \o InsertByAmountDesc(Tail(sorted), item)
         ELSE <<item>> \o sorted

\* .sort((a, b) => b.amount - a.amount)
RECURSIVE SortByAmountDesc(_)
SortByAmountDesc(items) ==
    IF items = <<>> THEN <<>>
    ELSE InsertByAmountDesc(
             SortByAmountDesc(SubSeq(items, 1, Len(items) - 1)),
             items[Len(items)])

IsLeapYear(year) ==
    (year % 4 = 0 /\ year % 100 # 0) \/ year % 400 = 0

\* Mutant: every month has 30 days.
DaysInMonthThirty(year, month) == 30

\* new Date(year, month, 0).getDate() for month in 1..12
DaysInMonth(year, month) ==
    IF month = 2 THEN (IF IsLeapYear(year) THEN 29 ELSE 28)
    ELSE IF month \in {4, 6, 9, 11} THEN 30 ELSE 31

calculateMonthlySummary(entries, categories, year, month) ==
    [year |-> year,
     month |-> month,
     totalAmount |-> TotalAmount(entries),
     categoryBreakdown |->
         SortByAmountDesc(SelectSeq(MappedBreakdown(entries, categories), KeepItem)),
     entryCount |-> Len(entries),
     averageDailySpending |-> Ratio(TotalAmount(entries), DaysInMonth(year, month))]

(***************************************************************************)
(* lib/ai-analysis.ts: normalizeCategoryName.                              *)
(*                                                                         *)
(* A text is named by its romaji; Chars gives its characters, one token    *)
(* per character of the source text (kanji and kana that read alike have   *)
(* different tokens).                                                      *)
(***************************************************************************)
Chars(text) ==
    CASE text = "" -> <<>>
      [] text = "shokuhi" -> <<"shoku", "hi">>                   \* 食費
      [] text = "shokuji" -> <<"shoku", "koto">>                 \* 食事
      [] text = "shokuryou" -> <<"shoku", "ryou">>               \* 食料
      [] text = "shokuzai" -> <<"shoku", "zai">>                 \* 食材
      [] text = "gaishoku" -> <<"soto", "shoku">>                \* 外食
      [] text = "nichiyouhin" -> <<"nichi", "you", "hin">>       \* 日用品
      [] text = "seikatsuyouhin" -> <<"sei", "katsu", "you", "hin">>  \* 生活用品
      [] text = "zakka" -> <<"zatsu", "ka">>                     \* 雑貨
      [] text = "koutsuuhi" -> <<"majiwaru", "tsuu", "hi">>      \* 交通費
      [] text = "koutsuu" -> <<"majiwaru", "tsuu">>              \* 交通
      [] text = "densha" -> <<"den", "kuruma">>                  \* 電車
      [] text = "basu" -> <<"BA", "SU">>                         \* バス
      [] text = "takushii" -> <<"TA", "KU", "SHI", "-">>         \* タクシー
      [] text = "gasorin" -> <<"GA", "SO", "RI", "N">>           \* ガソリン
      [] text = "goraku" -> <<"go", "raku">>                     \* 娯楽
      [] text = "shumi" -> <<"omomuki", "aji">>                  \* 趣味
      [] text = "rejaa" -> <<"RE", "JI", "ya", "-">>             \* レジャー
      [] text = "entame" -> <<"E", "N", "TA", "ME">>             \* エンタメ
      [] text = "iryouhi" -> <<"i", "iyasu", "hi">>              \* 医療費
      [] text = "iryou" -> <<"i", "iyasu">>                      \* 医療
      [] text = "byouin" -> <<"yamai", "in">>                    \* 病院
      [] text = "kusuri" -> <<"kusuri">>                         \* 薬
      [] text = "kyouikuhi" -> <<"oshieru", "sodatsu", "hi">>    \* 教育費
      [] text = "kyouiku" -> <<"oshieru", "sodatsu">>            \* 教育
      [] text = "gakuhi" -> <<"manabu", "hi">>                   \* 学費
      [] text = "shoseki" -> <<"kaku", "seki">>                  \* 書籍
      [] text = "kounetsuhi" -> <<"hikari", "netsu", "hi">>      \* 光熱費
      [] text = "denki" -> <<"den", "ki">>                       \* 電気
      [] text = "gasu" -> <<"GA", "SU">>                         \* ガス
      [] text = "suidou" -> <<"mizu", "michi">>                  \* 水道
      [] text = "tsuushinhi" -> <<"tsuu", "shin", "hi">>         \* 通信費
      [] text = "tsuushin" -> <<"tsuu", "shin">>                 \* 通信
      [] text = "denwa" -> <<"den", "hanasu">>                   \* 電話
      [] text = "intaanetto" -> <<"I", "N", "TA", "-", "NE", "tsu", "TO">>  \* インターネット
      [] text = "sonota" -> <<"so", "no", "hoka">>               \* その他
      [] text = "Food" -> <<"F", "o", "o", "d">>                 \* Food
      [] text = " " -> <<" ">>                                   \* one space
      [] text = "suupaa" -> <<"SU", "-", "PA", "-">>             \* スーパー
      [] text = "de" -> <<"de">>                                 \* で
      [] text = "kounyuu" -> <<"kau", "hairu">>                  \* 購入
      [] text = "dai" -> <<"dai">>                               \* 代

\* The characters of a text written as a sequence of the texts above.
RECURSIVE PhraseChars(_)
PhraseChars(phrase) ==
    IF phrase = <<>> THEN <<>> ELSE Chars(Head(phrase)) \o PhraseChars(Tail(phrase))

\* String.prototype.toLowerCase, on the Latin letters of the texts above
toLowerCase(chars) ==
    [i \in DOMAIN chars |-> IF chars[i] = "F" THEN "f" ELSE chars[i]]

\* String.prototype.trim
RECURSIVE trim(_)
trim(chars) ==
    IF chars = <<>> THEN chars
    ELSE IF Head(chars) = " " THEN trim(Tail(chars))
    ELSE IF chars[Len(chars)] = " " THEN trim(SubSeq(chars, 1, Len(chars) - 1))
    ELSE chars

\* String.prototype.includes
includes(chars, key) ==
    \E i \in 0..(Len(chars) - Len(key)) :
        SubSeq(chars, i + 1, i + Len(key)) = key

\* The categoryMap literal of normalizeCategoryName, in declaration order,
\* which is the order Object.entries yields.
categoryMap ==
    << [key |-> "shokuhi", value |-> "shokuhi"],
       [key |-> "shokuji", value |-> "shokuhi"],
       [key |-> "shokuryou", value |-> "shokuhi"],
       [key |-> "shokuzai", value |-> "shokuhi"],
       [key |-> "gaishoku", value |-> "shokuhi"],
       [key |-> "nichiyouhin", value |-> "nichiyouhin"],
       [key |-> "seikatsuyouhin", value |-> "nichiyouhin"],
       [key |-> "zakka", value |-> "nichiyouhin"],
       [key |-> "koutsuuhi", value |-> "koutsuuhi"],
       [key |-> "koutsuu", value |-> "koutsuuhi"],
       [key |-> "densha", value |-> "koutsuuhi"],
       [key |-> "basu", value |-> "koutsuuhi"],
       [key |-> "takushii", value |-> "koutsuuhi"],
       [key |-> "gasorin", value |-> "koutsuuhi"],
       [key |-> "goraku", value |-> "goraku"],
       [key |-> "shumi", value |-> "goraku"],
       [key |-> "rejaa", value |-> "goraku"],
       [key |-> "entame", value |-> "goraku"],
       [key |-> "iryouhi", value |-> "iryouhi"],
       [key |-> "iryou", value |-> "iryouhi"],
       [key |-> "byouin", value |-> "iryouhi"],
       [key |-> "kusuri", value |-> "iryouhi"],
       [key |-> "kyouikuhi", value |-> "kyouikuhi"],
       [key |-> "kyouiku", value |-> "kyouikuhi"],
       [key |-> "gakuhi", value |-> "kyouikuhi"],
       [key |-> "shoseki", value |-> "kyouikuhi"],
       [key |-> "kounetsuhi", value |-> "kounetsuhi"],
       [key |-> "denki", value |-> "kounetsuhi"],
       [key |-> "gasu", value |-> "kounetsuhi"],
       [key |-> "suidou", value |-> "kounetsuhi"],
       [key |-> "tsuushinhi", value |-> "tsuushinhi"],
       [key |-> "tsuushin", value |-> "tsuushinhi"],
       [key |-> "denwa", value |-> "tsuushinhi"],
       [key |-> "intaanetto", value |-> "tsuushinhi"],
       [key |-> "sonota", value |-> "sonota"] >>

\* Mutant: with no key included, a name outside the table is returned
\* (fumei = 不明).
RECURSIVE FirstMatchOrUnknown(_, _)
FirstMatchOrUnknown(normalized, i) ==
    IF i > Len(categoryMap) THEN "fumei"
    ELSE IF includes(normalized, toLowerCase(Chars(categoryMap[i].key)))
         THEN categoryMap[i].value
         ELSE FirstMatchOrUnknown(normalized, i + 1)

\* Mutant: the loop does not return at the first key included, and the value
\* of the last one wins.
RECURSIVE LastMatchFrom(_, _)
LastMatchFrom(normalized, i) ==
    IF i > Len(categoryMap) THEN "sonota"
    ELSE IF includes(normalized, toLowerCase(Chars(categoryMap[i].key)))
              /\ \A j \in (i + 1)..Len(categoryMap) :
                     ~includes(normalized, toLowerCase(Chars(categoryMap[j].key)))
         THEN categoryMap[i].value
         ELSE LastMatchFrom(normalized, i + 1)

\* The for loop over Object.entries(categoryMap) from entry i on: the value of
\* the first key that `normalized` includes, 'sonota' when there is none.
RECURSIVE FirstMatchFrom(_, _)
FirstMatchFrom(normalized, i) ==
    IF i > Len(categoryMap) THEN "sonota"
    ELSE IF includes(normalized, toLowerCase(Chars(categoryMap[i].key)))
         THEN categoryMap[i].value
         ELSE FirstMatchFrom(normalized, i + 1)

\* normalizeCategoryName(suggestedCategory).  The argument is <<>> (undefined)
\* or <<text>>, the text written as a sequence of the texts of Chars; the
\* text without characters is the empty string, which `!suggestedCategory`
\* treats as undefined.
normalizeCategoryName(suggestedCategory) ==
    IF suggestedCategory = <<>> \/ PhraseChars(suggestedCategory[1]) = <<>>
    THEN "sonota"
    ELSE FirstMatchFrom(trim(toLowerCase(PhraseChars(suggestedCategory[1]))), 1)

\* The nine canonical category names.
CanonicalNames == {DEFAULT_CATEGORIES[i].name : i \in DOMAIN DEFAULT_CATEGORIES}

(***************************************************************************)
(* lib/storage.ts: the entries collection.                                 *)
(***************************************************************************)
\* The value `undefined` of an optional field.
Undefined == "undefined"

\* The optional fields of KakeiboEntry and Category.
OptionalFields == {"categoryName", "note", "imageUri", "icon"}

\* What JSON.stringify keeps of an object: a field whose value is undefined
\* is left out.  Every other field of the records of this model is a string
\* or a finite number, which the text keeps.
JSONobject(object) ==
    [k \in {f \in DOMAIN object : ~(f \in OptionalFields /\ object[f] = Undefined)}
        |-> object[k]]

\* JSON.stringify of an array of entries or categories: the text, named by
\* the value JSON.parse reads from it.
JSONstringify(value) == [json |-> [i \in DOMAIN value |-> JSONobject(value[i])]]

\* JSON.parse
JSONparse(text) == text.json

\* loadEntries: readOk is whether AsyncStorage.getItem (and JSON.parse) succeed.
loadEntries(readOk, item) ==
    IF readOk
    THEN (IF item # <<>> THEN JSONparse(item[1]) ELSE <<>>)
    ELSE <<>>

\* Mutant: the entry is put in front of the collection.
addEntryUnshift(entries, entry) == <<entry>> \o entries

\* addEntry: entries.push(entry)
addEntryPush(entries, entry) == Append(entries, entry)

\* Mutant: a missing id is answered with the first index.
findIndexOrFirst(entries, id) ==
    IF \E i \in DOMAIN entries : entries[i].id = id
    THEN CHOOSE i \in DOMAIN entries :
             /\ entries[i].id = id
             /\ \A j \in DOMAIN entries : entries[j].id = id => i <= j
    ELSE IF entries = <<>> THEN -1 ELSE 1

\* Array.prototype.findIndex((e) => e.id === id): -1 when there is none
findIndex(entries, id) ==
    IF \E i \in DOMAIN entries : entries[i].id = id
    THEN CHOOSE i \in DOMAIN entries :
             /\ entries[i].id = id
             /\ \A j \in DOMAIN entries : entries[j].id = id => i <= j
    ELSE -1

\* { ...entries[index], ...updates, updatedAt: new Date().toISOString() }
\* updatedAt is "created" for the creation time and "updated" for a later one.
MergeUpdates(entry, updates) ==
    [k \in (DOMAIN entry) \cup (DOMAIN updates) \cup {"updatedAt"} |->
        IF k = "updatedAt" THEN "updated"
        ELSE IF k \in DOMAIN updates THEN updates[k] ELSE entry[k]]

\* updateEntry: entries[index] = ...
updateEntryAt(entries, index, updates) ==
    [entries EXCEPT ![index] = MergeUpdates(entries[index], updates)]

\* deleteEntry: entries.filter((e) => e.id !== id)
deleteEntryFilter(entries, id) ==
    LET Other(e) == e.id # id IN SelectSeq(entries, Other)

\* The entries collection as loadEntries would return it now.
StoredEntries == loadEntries(TRUE, entriesItem)

\* The KakeiboEntry a caller of addEntry builds for a line item.
EntryOf(item, id, categoryId) ==
    [id |-> id, date |-> item.date, itemName |-> item.itemName,
     amount |-> item.amount, categoryId |-> categoryId,
     categoryName |-> categoryId, updatedAt |-> "created"]

\* The line item of an entry that a caller other than the scan screen adds.
ManualItem ==
    [date |-> "2026-01-05", itemName |-> "densha", amount |-> 500]

\* The entry such a caller hands to addEntry: no note is given.
ManualEntry(id) ==
    [id |-> id, date |-> ManualItem.date, itemName |-> ManualItem.itemName,
     amount |-> ManualItem.amount, categoryId |-> "default_0",
     categoryName |-> "default_0", note |-> Undefined, updatedAt |-> "created"]

\* Partial<KakeiboEntry> values handed to updateEntry.
EntryUpdates == { [categoryId |-> "default_1"] }

(***************************************************************************)
(* lib/ai-analysis.ts: analyzeKakeiboImage.                                *)
(***************************************************************************)
\* Line items the vision service returns.  kusuri = 薬, ranchi = ランチ.
ItemSuupaa ==
    [date |-> "2026-01-04", itemName |-> "suupaa", amount |-> 3500,
     suggestedCategory |-> <<"shokuhi">>]

ItemDensha ==
    [date |-> "2026-01-05", itemName |-> "densha", amount |-> 500,
     suggestedCategory |-> <<>>]

ItemRanchi ==
    [date |-> "2026-01-06", itemName |-> "ranchi", amount |-> 800,
     suggestedCategory |-> <<"gaishoku">>]

ItemKusuri ==
    [date |-> "2026-01-07", itemName |-> "kusuri", amount |-> 1200,
     suggestedCategory |-> <<"">>]

\* The `entries` of the AIAnalysisResult values the service answers with.
AnalysisResults ==
    { <<>>, <<ItemSuupaa>>, <<ItemSuupaa, ItemDensha>>, <<ItemRanchi, ItemKusuri>>,
      <<ItemSuupaa, ItemDensha, ItemRanchi>> }

\* A line item of the vision service without itemName: the property reads
\* as undefined.
ItemNoName ==
    [date |-> "2026-01-04", itemName |-> Undefined, amount |-> 3500,
     suggestedCategory |-> <<"shokuhi">>]

\* The `entries` of answers that are JSON but not an AIAnalysisResult.
MismatchedResults == { <<ItemNoName>> }

\* What the two awaits of analyzeKakeiboImage meet: imageToBase64 rejects,
\* fetch rejects, the response is not ok (parseError: the route's JSON.parse
\* of the service's text threw and it answered with status 500; httpError:
\* any other status), response.json() rejects, or the response is ok and its
\* JSON is `body` (okNoEntries: a JSON object without `entries`).
AnalysisResponses ==
    { [kind |-> k, body |-> [entries |-> <<>>]] :
          k \in {"encodeError", "networkError", "httpError", "jsonError",
                 "parseError", "okNoEntries"} }
    \cup { [kind |-> "ok", body |-> [entries |-> r]] :
               r \in AnalysisResults \cup MismatchedResults }

\* Mutant: a response that is not ok is answered with an empty result.
analyzeKakeiboImageLenient(response) ==
    IF response.kind \in {"ok", "okNoEntries", "httpError"}
    THEN [threw |-> FALSE, result |-> response.body]
    ELSE [threw |-> TRUE, result |-> [entries |-> <<>>]]

\* analyzeKakeiboImage: the result, or the error its catch block rethrows
analyzeKakeiboImage(response) ==
    IF response.kind \in {"ok", "okNoEntries"}
    THEN [threw |-> FALSE, result |-> response.body]
    ELSE [threw |-> TRUE, result |-> [entries |-> <<>>]]

(***************************************************************************)
(* app/(tabs)/scan.tsx: handleTakePhoto, handlePickImage, analyzeImage.    *)
(***************************************************************************)
\* Invocations of the scan screen's handlers that can be in progress.
Flows == {"f1", "f2"}

\* Alert.alert calls, by title and message: erraa_satsuei = エラー / 写真の
\* 撮影に失敗しました, erraa_sentaku = エラー / 画像の選択に失敗しました,
\* kaiseki_kekka = 解析結果 / 家計簿のデータが見つかりませんでした,
\* kaiseki_kanryou = 解析完了, erraa_kaiseki = エラー / AI解析に失敗しました.

\* One invocation: its position (pc), the response analyzeKakeiboImage met,
\* the loop index, the entry being added and the collection about to be saved,
\* and what it did: the alerts shown, the entries handed to addEntry, the
\* setItem calls issued (writes), the entries item when the loop began
\* (before), and whether every storage call succeeded with no other writer
\* writing meanwhile (alone); what loadEntries returned to the addEntry in
\* progress (loaded) and whether a read of its loop failed (readFailed).
FlowIdle ==
    [pc |-> "idle", response |-> <<>>, idx |-> 0, toSave |-> <<>>,
     alerts |-> <<>>, addCalls |-> <<>>, writes |-> 0, before |-> <<>>,
     alone |-> TRUE, loaded |-> <<>>, readFailed |-> FALSE]

\* const categoryName = entry.suggestedCategory || 'sonota'
categoryNameOf(suggestedCategory) ==
    IF suggestedCategory = <<>> \/ suggestedCategory[1] = "" THEN "sonota"
    ELSE suggestedCategory[1]

\* const kakeiboEntry: KakeiboEntry = {...}
kakeiboEntry(item, id) ==
    EntryOf(item, id, categoryNameOf(item.suggestedCategory))

ResultOf(fl) == fl.response[1].body.entries

\* result.entries.length throws a TypeError when result has no `entries`.
EntriesLengthThrows(response) == response.kind = "okNoEntries"

\* Mutant: the empty result is reported with the failure alert.
ReportEmptyResultAsError(fl) ==
    [fl EXCEPT !.alerts = Append(@, "erraa_kaiseki"), !.pc = "idle"]

\* Mutant: the catch block does not return.
CatchAnalysisErrorAndHang(fl) ==
    [fl EXCEPT !.alerts = Append(@, "erraa_kaiseki"), !.pc = "catch", !.idx = 0,
               !.toSave = <<>>, !.loaded = <<>>]

\* Mutant: the error is caught without an alert.
CatchAnalysisErrorSilently(fl) ==
    [fl EXCEPT !.pc = "idle", !.idx = 0, !.toSave = <<>>, !.loaded = <<>>]

\* catch (error) { Alert.alert('erraa', ...) } finally { ... }
CatchAnalysisError(fl) ==
    [fl EXCEPT !.alerts = Append(@, "erraa_kaiseki"), !.pc = "idle", !.idx = 0,
               !.toSave = <<>>, !.loaded = <<>>]

\* if (result.entries.length === 0) { Alert.alert('kaiseki kekka', ...); return }
ReportEmptyResult(fl) ==
    [fl EXCEPT !.alerts = Append(@, "kaiseki_kekka"), !.pc = "idle"]

\* Alert.alert('kaiseki kanryou', ...) after the loop
ReportSaved(fl) ==
    [fl EXCEPT !.alerts = Append(@, "kaiseki_kanryou"), !.pc = "idle", !.idx = 0,
               !.toSave = <<>>, !.loaded = <<>>]

\* One iteration of the for loop up to its await: the entry is built and
\* addEntry(kakeiboEntry) is called, which awaits loadEntries.
CallAddEntryFor(fl, i, id) ==
    [fl EXCEPT !.pc = "addEntry_loadEntries", !.idx = i, !.toSave = <<>>,
               !.loaded = <<>>,
               !.addCalls = Append(@, kakeiboEntry(ResultOf(fl)[i], id))]

\* Another writer's setItem on the entries item lands: every invocation that
\* is inside its loop has not been alone.
NotAlone(flows, writer) ==
    [f \in Flows |->
        IF f # writer /\ flows[f].pc \in {"addEntry_loadEntries", "addEntry_saveEntries"}
        THEN [flows[f] EXCEPT !.alone = FALSE]
        ELSE flows[f]]

\* The caller's operation: its name and arguments (id for an entry, catId for
\* a category), its position (pc), the collection it is about to save, and
\* what it did: the value of its key when it was called (before), whether its
\* read failed, the setItem calls it issued (writes), how it ended (outcome).
ClientIdle ==
    [pc |-> "idle", name |-> "none", id |-> 0, catId |-> "", arg |-> <<>>,
     toSave |-> <<>>, before |-> <<>>, outcome |-> "none", readFailed |-> FALSE,
     writes |-> 0]

ClientCall(name, id, arg) ==
    [ClientIdle EXCEPT !.pc = "loadEntries", !.name = name, !.id = id, !.arg = arg,
                       !.before = entriesItem]

\* addEntry(entry) is called: loadEntries is awaited.
CallAddEntry ==
    /\ client.pc = "idle"
    /\ nextId <= MaxIds
    /\ client' = ClientCall("addEntry", nextId, <<ManualEntry(nextId)>>)
    /\ nextId' = nextId + 1
    /\ UNCHANGED <<screenVars, normalizerVars, analyticsVars, readerVars>>
    /\ UNCHANGED <<summaryVars, storageVars, scanVars, exportVars>>

\* updateEntry(id, updates) is called: loadEntries is awaited.
CallUpdateEntry ==
    /\ client.pc = "idle"
    /\ \E id \in 1..MaxIds, updates \in EntryUpdates :
           client' = ClientCall("updateEntry", id, <<updates>>)
    /\ UNCHANGED <<screenVars, normalizerVars, analyticsVars, readerVars>>
    /\ UNCHANGED <<summaryVars, storageVars, nextId, scanVars, exportVars>>

\* deleteEntry(id) is called: loadEntries is awaited.
CallDeleteEntry ==
    /\ client.pc = "idle"
    /\ \E id \in 1..MaxIds : client' = ClientCall("deleteEntry", id, <<>>)
    /\ UNCHANGED <<screenVars, normalizerVars, analyticsVars, readerVars>>
    /\ UNCHANGED <<summaryVars, storageVars, nextId, scanVars, exportVars>>

\* What the operation does with the collection loadEntries returned: the
\* collection it hands to saveEntries, or the not-found error of updateEntry.
EntriesToSave(name, entries, id, arg) ==
    CASE name = "addEntry" -> [threw |-> FALSE, entries |-> addEntryPush(entries, arg[1])]
      [] name = "updateEntry" ->
            IF findIndex(entries, id) = -1
            THEN [threw |-> TRUE, entries |-> <<>>]
            ELSE [threw |-> FALSE,
                  entries |-> updateEntryAt(entries, findIndex(entries, id), arg[1])]
      [] name = "deleteEntry" ->
            [threw |-> FALSE, entries |-> deleteEntryFilter(entries, id)]

\* loadEntries returns to addEntry, updateEntry or deleteEntry, which goes on
\* to saveEntries (AsyncStorage.setItem is called) or throws not-found.
ClientLoadEntries ==
    /\ client.pc = "loadEntries"
    /\ \E readOk \in BOOLEAN :
           LET next == EntriesToSave(client.name, loadEntries(readOk, entriesItem),
                                     client.id, client.arg)
           IN client' =
                  IF next.threw
                  THEN [client EXCEPT !.pc = "idle", !.outcome = "notFound",
                                      !.readFailed = ~readOk]
                  ELSE [client EXCEPT !.pc = "saveEntries", !.toSave = next.entries,
                                      !.readFailed = ~readOk,
                                      !.writes = client.writes + 1]
    /\ UNCHANGED <<screenVars, normalizerVars, analyticsVars, readerVars>>
    /\ UNCHANGED <<summaryVars, storageVars, nextId, scanVars, exportVars>>

\* saveEntries: AsyncStorage.setItem resolves, or rejects and saveEntries
\* throws its own error.
ClientSaveEntries ==
    /\ client.pc = "saveEntries"
    /\ \E writeOk \in BOOLEAN :
           IF writeOk
           THEN /\ entriesItem' = <<JSONstringify(client.toSave)>>
                /\ client' = [client EXCEPT !.pc = "idle", !.outcome = "ok",
                                            !.toSave = <<>>]
                /\ scan' = NotAlone(scan, "client")
           ELSE /\ entriesItem' = entriesItem
                /\ client' = [client EXCEPT !.pc = "idle", !.outcome = "saveFailed",
                                            !.toSave = <<>>]
                /\ scan' = scan
    /\ UNCHANGED <<screenVars, normalizerVars, analyticsVars, readerVars>>
    /\ UNCHANGED <<summaryVars, categoriesItem, nextId, isAnalyzing, exportVars>>

(***************************************************************************)
(* lib/storage.ts: the categories collection.                              *)
(***************************************************************************)
\* loadCategories: DEFAULT_CATEGORIES.map((cat, index) => ({...cat,
\* id: `default_${index}`, createdAt}))
defaultCategories ==
    [i \in DOMAIN DEFAULT_CATEGORIES |->
        [id |-> DefaultId(i - 1), name |-> DEFAULT_CATEGORIES[i].name,
         color |-> DEFAULT_CATEGORIES[i].color]]

\* Category ids and Partial<Category> values handed to updateCategory.
CategoryIdArgs == {"default_0", "default_8", "custom_1"}

CategoryUpdates == { [name |-> "gaishoku"] }

\* { ...categories[index], ...updates }
MergeCategoryUpdates(category, updates) ==
    [k \in (DOMAIN category) \cup (DOMAIN updates) |->
        IF k \in DOMAIN updates THEN updates[k] ELSE category[k]]

\* One more successful write of the default categories; the count stops at
\* MaxDefaultWrites.
CountDefaultWrite(count) == IF count < MaxDefaultWrites THEN count + 1 ELSE count

\* updateCategory(id, updates) is called: loadCategories is awaited.
CallUpdateCategory ==
    /\ client.pc = "idle"
    /\ \E id \in CategoryIdArgs, updates \in CategoryUpdates :
           client' = [ClientIdle EXCEPT !.pc = "loadCategories",
                                        !.name = "updateCategory", !.catId = id,
                                        !.arg = <<updates>>,
                                        !.before = categoriesItem]
    /\ UNCHANGED <<screenVars, normalizerVars, analyticsVars, readerVars>>
    /\ UNCHANGED <<summaryVars, storageVars, nextId, scanVars, exportVars>>

\* updateCategory after loadCategories returned `categories`: it throws
\* not-found, or changes the category and calls saveCategories.
UpdateCategoryWith(categories, readOk) ==
    IF findIndex(categories, client.catId) = -1
    THEN [client EXCEPT !.pc = "idle", !.outcome = "notFound",
                        !.readFailed = ~readOk]
    ELSE [client EXCEPT
             !.pc = "saveCategories",
             !.toSave = [categories EXCEPT ![findIndex(categories, client.catId)] =
                            MergeCategoryUpdates(@, client.arg[1])],
             !.readFailed = ~readOk,
             !.writes = client.writes + 1]

\* deleteCategory after loadCategories returned `categories`:
\* categories.filter((c) => c.id !== id), then saveCategories(filtered)
DeleteCategoryWith(categories, readOk) ==
    [client EXCEPT !.pc = "saveCategories",
                   !.toSave = deleteEntryFilter(categories, client.catId),
                   !.readFailed = ~readOk,
                   !.writes = client.writes + 1]

\* addCategory after loadCategories returned `categories`:
\* categories.push(category), then saveCategories(categories)
AddCategoryWith(categories, readOk) ==
    [client EXCEPT !.pc = "saveCategories",
                   !.toSave = Append(categories, client.arg[1]),
                   !.readFailed = ~readOk,
                   !.writes = client.writes + 1]

\* The operation that awaited loadCategories goes on with what it returned.
CategoriesLoaded(categories, readOk) ==
    CASE client.name = "updateCategory" -> UpdateCategoryWith(categories, readOk)
      [] client.name = "deleteCategory" -> DeleteCategoryWith(categories, readOk)
      [] client.name = "addCategory" -> AddCategoryWith(categories, readOk)

\* The categories collection as a successful read would parse it now.
StoredCategories == IF categoriesItem = <<>> THEN <<>> ELSE JSONparse(categoriesItem[1])

\* Categories handed to addCategory.
CategoriesToAdd ==
    { [id |-> "custom_1", name |-> "shumi", color |-> "#000000"] }

\* addCategory(category) is called: loadCategories is awaited.
CallAddCategory ==
    /\ client.pc = "idle"
    /\ Len(StoredCategories) < Len(defaultCategories) + MaxAdded
    /\ \E category \in CategoriesToAdd :
           client' = [ClientIdle EXCEPT !.pc = "loadCategories",
                                        !.name = "addCategory",
                                        !.catId = category.id,
                                        !.arg = <<category>>,
                                        !.before = categoriesItem]
    /\ UNCHANGED <<screenVars, normalizerVars, analyticsVars, readerVars>>
    /\ UNCHANGED <<summaryVars, storageVars, nextId, scanVars, exportVars>>

\* deleteCategory(id) is called: loadCategories is awaited.
CallDeleteCategory ==
    /\ client.pc = "idle"
    /\ \E id \in CategoryIdArgs :
           client' = [ClientIdle EXCEPT !.pc = "loadCategories",
                                        !.name = "deleteCategory", !.catId = id,
                                        !.before = categoriesItem]
    /\ UNCHANGED <<screenVars, normalizerVars, analyticsVars, readerVars>>
    /\ UNCHANGED <<summaryVars, storageVars, nextId, scanVars, exportVars>>

\* clearAllData() is called (the settings screen): multiRemove is awaited.
CallClearAllData ==
    /\ client.pc = "idle"
    /\ client' = [ClientIdle EXCEPT !.pc = "multiRemove", !.name = "clearAllData",
                                    !.before = categoriesItem]
    /\ UNCHANGED <<screenVars, normalizerVars, analyticsVars, readerVars>>
    /\ UNCHANGED <<summaryVars, storageVars, nextId, scanVars, exportVars>>

\* clearAllData: AsyncStorage.multiRemove resolves and both keys are gone, or
\* it rejects and clearAllData throws its own error.
ClientClearSettles ==
    /\ client.pc = "multiRemove"
    /\ \E removeOk \in BOOLEAN :
           IF removeOk
           THEN /\ entriesItem' = <<>>
                /\ categoriesItem' = <<>>
                /\ client' = [client EXCEPT !.pc = "idle", !.outcome = "ok"]
           ELSE /\ UNCHANGED storageVars
                /\ client' = [client EXCEPT !.pc = "idle", !.outcome = "clearFailed"]
    /\ UNCHANGED <<screenVars, normalizerVars, analyticsVars, readerVars>>
    /\ UNCHANGED <<summaryVars, nextId, scanVars, exportVars>>

\* loadCategories: AsyncStorage.getItem resolves or rejects.  A stored value is
\* parsed and returned; with none stored the default categories are built and
\* saveCategories is awaited; a failure is answered with [].
ClientLoadCategories ==
    /\ client.pc = "loadCategories"
    /\ \E readOk \in BOOLEAN :
           IF readOk /\ categoriesItem = <<>>
           THEN client' = [client EXCEPT !.pc = "bootstrapCategories",
                                         !.writes = client.writes + 1]
           ELSE client' =
                    CategoriesLoaded(
                        IF readOk THEN JSONparse(categoriesItem[1]) ELSE <<>>, readOk)
    /\ UNCHANGED <<screenVars, normalizerVars, analyticsVars, readerVars>>
    /\ UNCHANGED <<summaryVars, storageVars, nextId, scanVars, exportVars>>

\* loadCategories: saveCategories(defaultCategories) resolves and the defaults
\* are returned, or it throws and the catch of loadCategories returns [].
ClientBootstrapCategories ==
    /\ client.pc = "bootstrapCategories"
    /\ \E writeOk \in BOOLEAN :
           IF writeOk
           THEN /\ categoriesItem' = <<JSONstringify(defaultCategories)>>
                /\ defaultWrites' = CountDefaultWrite(defaultWrites)
                /\ client' = CategoriesLoaded(defaultCategories, TRUE)
           ELSE /\ categoriesItem' = categoriesItem
                /\ defaultWrites' = defaultWrites
                /\ client' = CategoriesLoaded(<<>>, TRUE)
    /\ UNCHANGED <<screenVars, normalizerVars, analyticsVars, reader>>
    /\ UNCHANGED <<summaryVars, entriesItem, nextId, scanVars, exportVars>>

\* saveCategories: AsyncStorage.setItem resolves, or rejects and
\* saveCategories throws its own error.
ClientSaveCategories ==
    /\ client.pc = "saveCategories"
    /\ \E writeOk \in BOOLEAN :
           IF writeOk
           THEN /\ categoriesItem' = <<JSONstringify(client.toSave)>>
                /\ client' = [client EXCEPT !.pc = "idle", !.outcome = "ok",
                                            !.toSave = <<>>]
           ELSE /\ categoriesItem' = categoriesItem
                /\ client' = [client EXCEPT !.pc = "idle", !.outcome = "saveFailed",
                                            !.toSave = <<>>]
    /\ UNCHANGED <<screenVars, normalizerVars, analyticsVars, readerVars>>
    /\ UNCHANGED <<summaryVars, entriesItem, nextId, scanVars, exportVars>>

\* handleTakePhoto past its guard: takePictureAsync is awaited.
HandleTakePhoto(f) ==
    /\ scan[f].pc = "idle"
    /\ ~isAnalyzing
    /\ scan' = [scan EXCEPT ![f] = [FlowIdle EXCEPT !.pc = "takePictureAsync"]]
    /\ UNCHANGED <<screenVars, normalizerVars, analyticsVars, readerVars>>
    /\ UNCHANGED <<summaryVars, storageVars, nextId, client, isAnalyzing, exportVars>>

\* handlePickImage past its guard: launchImageLibraryAsync is awaited.
HandlePickImage(f) ==
    /\ scan[f].pc = "idle"
    /\ ~isAnalyzing
    /\ scan' = [scan EXCEPT ![f] = [FlowIdle EXCEPT !.pc = "launchImageLibraryAsync"]]
    /\ UNCHANGED <<screenVars, normalizerVars, analyticsVars, readerVars>>
    /\ UNCHANGED <<summaryVars, storageVars, nextId, client, isAnalyzing, exportVars>>

\* takePictureAsync or launchImageLibraryAsync settles: it rejects (the
\* handler's catch shows its alert), yields no image (no photo, or the picker
\* was canceled), or yields an image and analyzeImage starts:
\* setIsAnalyzing(true), and analyzeKakeiboImage is awaited.
ImageSettles(f) ==
    /\ scan[f].pc \in {"takePictureAsync", "launchImageLibraryAsync"}
    /\ \E got \in {"rejected", "none", "image"} :
           CASE got = "rejected" ->
                   /\ scan' = [scan EXCEPT ![f].pc = "idle",
                                  ![f].alerts = Append(@,
                                      IF scan[f].pc = "takePictureAsync"
                                      THEN "erraa_satsuei" ELSE "erraa_sentaku")]
                   /\ UNCHANGED isAnalyzing
             [] got = "none" ->
                   /\ scan' = [scan EXCEPT ![f].pc = "idle"]
                   /\ UNCHANGED isAnalyzing
             [] got = "image" ->
                   /\ scan' = [scan EXCEPT ![f].pc = "analyzeKakeiboImage"]
                   /\ isAnalyzing' = TRUE
    /\ UNCHANGED <<screenVars, normalizerVars, analyticsVars, readerVars>>
    /\ UNCHANGED <<summaryVars, storageVars, nextId, client, exportVars>>

\* analyzeKakeiboImage settles.  It throws: catch and finally.  It returns no
\* entries: the alert, setIsAnalyzing(false), return.  It returns entries: the
\* first iteration of the loop, up to the await in addEntry.
AnalysisSettles(f) ==
    /\ scan[f].pc = "analyzeKakeiboImage"
    /\ \E response \in AnalysisResponses :
           LET got == analyzeKakeiboImage(response)
               fl == [scan[f] EXCEPT !.response = <<response>>]
           IN IF got.threw \/ EntriesLengthThrows(response)
              THEN /\ scan' = [scan EXCEPT ![f] = CatchAnalysisError(fl)]
                   /\ isAnalyzing' = FALSE
                   /\ UNCHANGED nextId
              ELSE IF Len(got.result.entries) = 0
              THEN /\ scan' = [scan EXCEPT ![f] = ReportEmptyResult(fl)]
                   /\ isAnalyzing' = FALSE
                   /\ UNCHANGED nextId
              ELSE /\ nextId + Len(got.result.entries) - 1 <= MaxIds
                   /\ scan' = [scan EXCEPT ![f] =
                                  CallAddEntryFor([fl EXCEPT !.before = entriesItem],
                                                  1, nextId)]
                   /\ nextId' = nextId + 1
                   /\ UNCHANGED isAnalyzing
    /\ UNCHANGED <<screenVars, normalizerVars, analyticsVars, readerVars>>
    /\ UNCHANGED <<summaryVars, storageVars, client, exportVars>>

\* addEntry: loadEntries returns, the entry is pushed, saveEntries is awaited.
AddEntryLoads(f) ==
    /\ scan[f].pc = "addEntry_loadEntries"
    /\ \E readOk \in BOOLEAN :
           scan' = [scan EXCEPT
                       ![f].pc = "addEntry_saveEntries",
                       ![f].toSave = addEntryPush(loadEntries(readOk, entriesItem),
                                                  scan[f].addCalls[scan[f].idx]),
                       ![f].writes = @ + 1,
                       ![f].alone = @ /\ readOk,
                       ![f].loaded = loadEntries(readOk, entriesItem),
                       ![f].readFailed = @ \/ ~readOk]
    /\ UNCHANGED <<screenVars, normalizerVars, analyticsVars, readerVars>>
    /\ UNCHANGED <<summaryVars, storageVars, nextId, client, isAnalyzing, exportVars>>

\* addEntry: saveEntries settles.  It throws: catch and finally of
\* analyzeImage.  It returns: the next iteration up to its await or, after the
\* last one, the completion alert and finally.
AddEntrySaves(f) ==
    /\ scan[f].pc = "addEntry_saveEntries"
    /\ \E writeOk \in BOOLEAN :
           IF ~writeOk
           THEN /\ scan' = [scan EXCEPT ![f] =
                               CatchAnalysisError([scan[f] EXCEPT !.alone = FALSE])]
                /\ isAnalyzing' = FALSE
                /\ UNCHANGED <<entriesItem, nextId>>
           ELSE /\ entriesItem' = <<JSONstringify(scan[f].toSave)>>
                /\ IF scan[f].idx < Len(ResultOf(scan[f]))
                   THEN /\ scan' = [NotAlone(scan, f) EXCEPT ![f] =
                                       CallAddEntryFor(scan[f], scan[f].idx + 1, nextId)]
                        /\ nextId' = nextId + 1
                        /\ UNCHANGED isAnalyzing
                   ELSE /\ scan' = [NotAlone(scan, f) EXCEPT ![f] = ReportSaved(scan[f])]
                        /\ isAnalyzing' = FALSE
                        /\ UNCHANGED nextId
    /\ UNCHANGED <<screenVars, normalizerVars, analyticsVars, readerVars>>
    /\ UNCHANGED <<summaryVars, categoriesItem, client, exportVars>>

(***************************************************************************)
(* lib/storage.ts: generateCSV.  A text is a sequence of pieces: the       *)
(* characters ",", the double quote and "\n", and the texts of the fields. *)
(***************************************************************************)
\* new Date(date).getTime(), as the day's number, for the dates of the model
getTime(date) ==
    CASE date = "2026-01-04" -> 20260104
      [] date = "2026-01-05" -> 20260105
      [] date = "2026-01-06" -> 20260106
      [] date = "2026-01-07" -> 20260107

\* Insertion of one entry into a list sorted by date descending, after the
\* entries of the same date.
RECURSIVE InsertByDateDesc(_, _)
InsertByDateDesc(sorted, entry) ==
    IF sorted = <<>> THEN <<entry>>
    ELSE IF getTime(sorted[1].date) >= getTime(entry.date)
         THEN <<sorted[1]>> \o InsertByDateDesc(Tail(sorted), entry)
         ELSE <<entry>> \o sorted

\* Mutant: the entries are left in their stored order.
SortNotAtAll(entries) == entries

\* entries.sort((a, b) => new Date(b.date).getTime() - new Date(a.date).getTime())
RECURSIVE SortByDateDesc(_)
SortByDateDesc(entries) ==
    IF entries = <<>> THEN <<>>
    ELSE InsertByDateDesc(SortByDateDesc(SubSeq(entries, 1, Len(entries) - 1)),
                          entries[Len(entries)])

\* let csv = 'hizuke,koumokumei,kingaku,kategori,memo\n'
csvHeader ==
    <<"hizuke", ",", "koumokumei", ",", "kingaku", ",", "kategori", ",", "memo", "\n">>

\* categoryMap.get(entry.categoryId) || 'sonota'
csvCategoryName(categories, categoryId) ==
    IF \E i \in DOMAIN categories : categories[i].id = categoryId
    THEN (IF CategoryMapValue(categories, categoryId).name = "" THEN "sonota"
          ELSE CategoryMapValue(categories, categoryId).name)
    ELSE "sonota"

\* The pieces of a field's text: the characters ",", the double quote and
\* "\n" are pieces of their own, everything between them is one piece.
\* pan,gyuunyuu = パン,牛乳; "tokubai"gyuunyuu = "特売"牛乳.
Pieces(text) ==
    CASE text = "" -> <<>>
      [] text = "pan,gyuunyuu" -> <<"pan", ",", "gyuunyuu">>
      [] text = "\"tokubai\"gyuunyuu" -> <<"\"", "tokubai", "\"", "gyuunyuu">>
      [] OTHER -> <<text>>

\* const note = entry.note || ''
csvNote(entry) ==
    IF "note" \in DOMAIN entry /\ entry.note # Undefined THEN entry.note ELSE ""

\* Mutant: the item name is written without its quotes.
csvRowUnquoted(entry, categories) ==
    <<entry.date, ",">> \o Pieces(entry.itemName)
        \o <<",", ToString(entry.amount), ",", "\"">>
        \o Pieces(csvCategoryName(categories, entry.categoryId))
        \o <<"\"", ",", "\"">> \o Pieces(csvNote(entry)) \o <<"\"", "\n">>

\* `${entry.date},"${entry.itemName}",${entry.amount},"${categoryName}","${note}"\n`
csvRow(entry, categories) ==
    <<entry.date, ",", "\"">> \o Pieces(entry.itemName)
        \o <<"\"", ",", ToString(entry.amount), ",", "\"">>
        \o Pieces(csvCategoryName(categories, entry.categoryId))
        \o <<"\"", ",", "\"">> \o Pieces(csvNote(entry)) \o <<"\"", "\n">>

RECURSIVE csvRows(_, _)
csvRows(entries, categories) ==
    IF entries = <<>> THEN <<>>
    ELSE csvRow(entries[1], categories) \o csvRows(Tail(entries), categories)

\* generateCSV, given what loadEntries and loadCategories returned
generateCSV(entries, categories) ==
    csvHeader \o csvRows(SortByDateDesc(entries), categories)

\* csvData.split('\n').length: one more than the line feeds of the text
SplitLength(text) == Cardinality({i \in DOMAIN text : text[i] = "\n"}) + 1

(***************************************************************************)
(* The settings screen: handleExportCSV.                                   *)
(***************************************************************************)
\* Alerts, by title: ekusupooto = エクスポート / エクスポートするデータが
\* ありません, ekusupooto_kanryou = エクスポート完了, erraa_ekusupooto =
\* エラー / エクスポートに失敗しました.

\* The handler: its position, what loadEntries returned, the text generateCSV
\* returned, the alerts shown, the calls of writeAsStringAsync and
\* Share.share, and whether a read of the store failed.
ExportIdle ==
    [pc |-> "idle", entries |-> <<>>, csv |-> <<>>, alerts |-> <<>>,
     fileWrites |-> 0, shares |-> 0, readFailed |-> FALSE]

\* !csvData || csvData.split('\n').length <= 1
NothingToExport(csvData) == csvData = <<>> \/ SplitLength(csvData) <= 1

\* handleExportCSV past its guard: setIsExporting(true), and generateCSV
\* awaits loadEntries.
HandleExportCSV ==
    /\ ~isExporting
    /\ export.pc = "idle"
    /\ isExporting' = TRUE
    /\ export' = [ExportIdle EXCEPT !.pc = "loadEntries"]
    /\ UNCHANGED <<screenVars, normalizerVars, analyticsVars, readerVars>>
    /\ UNCHANGED <<summaryVars, storageVars, nextId, client, scanVars>>

\* generateCSV: loadEntries returns; loadCategories is awaited.
ExportLoadsEntries ==
    /\ export.pc = "loadEntries"
    /\ \E readOk \in BOOLEAN :
           export' = [export EXCEPT !.pc = "loadCategories",
                                    !.entries = loadEntries(readOk, entriesItem),
                                    !.readFailed = ~readOk]
    /\ UNCHANGED <<screenVars, normalizerVars, analyticsVars, readerVars>>
    /\ UNCHANGED <<summaryVars, storageVars, nextId, client, scanVars, isExporting>>

\* handleExportCSV once loadCategories returned `categories`: generateCSV
\* returns its text; with nothing to export the alert is shown and finally
\* runs, otherwise writeAsStringAsync is awaited.
ExportWith(categories) ==
    LET csvData == generateCSV(export.entries, categories)
    IN IF NothingToExport(csvData)
       THEN /\ export' = [export EXCEPT !.pc = "idle", !.csv = csvData,
                                        !.alerts = Append(@, "ekusupooto")]
            /\ isExporting' = FALSE
       ELSE /\ export' = [export EXCEPT !.pc = "writeAsStringAsync", !.csv = csvData,
                                        !.fileWrites = @ + 1]
            /\ UNCHANGED isExporting

\* generateCSV: the getItem of loadCategories settles.
ExportLoadsCategories ==
    /\ export.pc = "loadCategories"
    /\ \E readOk \in BOOLEAN :
           IF readOk /\ categoriesItem = <<>>
           THEN /\ export' = [export EXCEPT !.pc = "bootstrapCategories"]
                /\ UNCHANGED isExporting
           ELSE ExportWith(IF readOk THEN JSONparse(categoriesItem[1]) ELSE <<>>)
    /\ UNCHANGED <<screenVars, normalizerVars, analyticsVars, readerVars>>
    /\ UNCHANGED <<summaryVars, storageVars, nextId, client, scanVars>>

\* generateCSV: the saveCategories(defaultCategories) of loadCategories settles.
ExportBootstrapsCategories ==
    /\ export.pc = "bootstrapCategories"
    /\ \E writeOk \in BOOLEAN :
           IF writeOk
           THEN /\ categoriesItem' = <<JSONstringify(defaultCategories)>>
                /\ defaultWrites' = CountDefaultWrite(defaultWrites)
                /\ ExportWith(defaultCategories)
           ELSE /\ categoriesItem' = categoriesItem
                /\ defaultWrites' = defaultWrites
                /\ ExportWith(<<>>)
    /\ UNCHANGED <<screenVars, normalizerVars, analyticsVars, reader>>
    /\ UNCHANGED <<summaryVars, entriesItem, nextId, client, scanVars>>

\* FileSystem.writeAsStringAsync settles: Share.share is awaited, or the catch
\* block shows the failure alert and finally runs.
ExportWriteSettles ==
    /\ export.pc = "writeAsStringAsync"
    /\ \E ok \in BOOLEAN :
           IF ok
           THEN /\ export' = [export EXCEPT !.pc = "share", !.shares = @ + 1]
                /\ UNCHANGED isExporting
           ELSE /\ export' = [export EXCEPT !.pc = "idle",
                                            !.alerts = Append(@, "erraa_ekusupooto")]
                /\ isExporting' = FALSE
    /\ UNCHANGED <<screenVars, normalizerVars, analyticsVars, readerVars>>
    /\ UNCHANGED <<summaryVars, storageVars, nextId, client, scanVars>>

\* Share.share settles: the completion alert, or the failure alert; finally.
ExportShareSettles ==
    /\ export.pc = "share"
    /\ \E ok \in BOOLEAN :
           export' = [export EXCEPT !.pc = "idle",
                         !.alerts = Append(@, IF ok THEN "ekusupooto_kanryou"
                                              ELSE "erraa_ekusupooto")]
    /\ isExporting' = FALSE
    /\ UNCHANGED <<screenVars, normalizerVars, analyticsVars, readerVars>>
    /\ UNCHANGED <<summaryVars, storageVars, nextId, client, scanVars>>

(***************************************************************************)
(* A screen's loadData (home screen, analytics screen): loadCategories,    *)
(* called while the store's other caller is at work.                       *)
(***************************************************************************)
ReaderIdle == [pc |-> "idle"]

\* loadData is called: the getItem of loadCategories is awaited.
ReaderCallsLoadCategories ==
    /\ reader.pc = "idle"
    /\ reader' = [reader EXCEPT !.pc = "getItem"]
    /\ UNCHANGED <<screenVars, normalizerVars, analyticsVars, defaultWrites>>
    /\ UNCHANGED <<summaryVars, storageVars, nextId, client, scanVars, exportVars>>

\* loadCategories: getItem settles.  A stored value is returned, a failure is
\* answered with [], and with no value stored the defaults are built and
\* saveCategories(defaultCategories) is awaited.
ReaderGetItemSettles ==
    /\ reader.pc = "getItem"
    /\ \E readOk \in BOOLEAN :
           reader' = [reader EXCEPT !.pc = IF readOk /\ categoriesItem = <<>>
                                           THEN "bootstrapCategories" ELSE "idle"]
    /\ UNCHANGED <<screenVars, normalizerVars, analyticsVars, defaultWrites>>
    /\ UNCHANGED <<summaryVars, storageVars, nextId, client, scanVars, exportVars>>

\* loadCategories: saveCategories(defaultCategories) settles.
ReaderBootstrapSettles ==
    /\ reader.pc = "bootstrapCategories"
    /\ \E writeOk \in BOOLEAN :
           IF writeOk
           THEN /\ categoriesItem' = <<JSONstringify(defaultCategories)>>
                /\ defaultWrites' = CountDefaultWrite(defaultWrites)
           ELSE /\ categoriesItem' = categoriesItem
                /\ defaultWrites' = defaultWrites
    /\ reader' = [reader EXCEPT !.pc = "idle"]
    /\ UNCHANGED <<screenVars, normalizerVars, analyticsVars>>
    /\ UNCHANGED <<summaryVars, entriesItem, nextId, client, scanVars, exportVars>>

(***************************************************************************)
(* lib/storage.ts getEntriesByMonth and app/(tabs)/analytics.tsx           *)
(* getMonthlyTrendData.                                                    *)
(***************************************************************************)
\* The date texts of the model, as year, month and day.
DateFields(date) ==
    CASE date = "2025-07-31" -> [year |-> 2025, month |-> 7, day |-> 31]
      [] date = "2025-08-01" -> [year |-> 2025, month |-> 8, day |-> 1]
      [] date = "2025-12-31" -> [year |-> 2025, month |-> 12, day |-> 31]
      [] date = "2026-01-01" -> [year |-> 2026, month |-> 1, day |-> 1]
      [] date = "2026-01-04" -> [year |-> 2026, month |-> 1, day |-> 4]
      [] date = "2026-01-05" -> [year |-> 2026, month |-> 1, day |-> 5]
      [] date = "2026-01-06" -> [year |-> 2026, month |-> 1, day |-> 6]
      [] date = "2026-01-07" -> [year |-> 2026, month |-> 1, day |-> 7]
      [] date = "2026-02-01" -> [year |-> 2026, month |-> 2, day |-> 1]

\* The calendar day before a day.
DayBefore(d) ==
    IF d.day > 1 THEN [d EXCEPT !.day = d.day - 1]
    ELSE IF d.month > 1
         THEN [year |-> d.year, month |-> d.month - 1,
               day |-> DaysInMonth(d.year, d.month - 1)]
         ELSE [year |-> d.year - 1, month |-> 12, day |-> 31]

\* new Date(entry.date) for a date-only text: the instant 00:00 UTC of that
\* day.  getFullYear() and getMonth() read it in the device's local time,
\* which is offset minutes behind UTC (getTimezoneOffset(); |offset| < 24 h):
\* west of Greenwich the local day is the day before.
LocalDay(date, offset) ==
    IF offset > 0 THEN DayBefore(DateFields(date)) ELSE DateFields(date)

\* Mutant: the month test of the filter is dropped.
getEntriesByYear(entries, year, month, offset) ==
    LET InYear(entry) == LocalDay(entry.date, offset).year = year
    IN SelectSeq(entries, InYear)

\* getEntriesByMonth, given what loadEntries returned:
\* entryDate.getFullYear() === year && entryDate.getMonth() + 1 === month
getEntriesByMonth(entries, year, month, offset) ==
    LET InMonth(entry) ==
            /\ LocalDay(entry.date, offset).year = year
            /\ LocalDay(entry.date, offset).month = month
    IN SelectSeq(entries, InMonth)

\* Mutant: a month at or before 0 is moved into the same year.
TrendMonthSameYear(year, month, i) ==
    IF month - i <= 0 THEN [year |-> year, month |-> month - i + 12]
    ELSE [year |-> year, month |-> month - i]

\* The loop body of getMonthlyTrendData for i: let year = currentYear;
\* let month = currentMonth - i; if (month <= 0) { month += 12; year -= 1 }
TrendMonth(year, month, i) ==
    IF month - i <= 0 THEN [year |-> year - 1, month |-> month - i + 12]
    ELSE [year |-> year, month |-> month - i]

\* `${month}gatsu` (月)
TrendLabel(month) == <<ToString(month), "gatsu">>

\* The invocation of getMonthlyTrendData: its position, the currentYear and
\* currentMonth of the render that started it, the loop variable i, the
\* arrays data and labels, and whether a read of the entries failed.
TrendIdle ==
    [pc |-> "idle", year |-> 0, month |-> 0, i |-> 0, data |-> <<>>,
     labels |-> <<>>, readFailed |-> FALSE]

\* The months the user can move between.
FirstAnchor == [year |-> 2025, month |-> 12]

LastAnchor == [year |-> 2026, month |-> 2]

\* handlePreviousMonth
HandlePreviousMonth ==
    /\ trend.pc = "idle"
    /\ <<currentYear, currentMonth>> # <<FirstAnchor.year, FirstAnchor.month>>
    /\ IF currentMonth = 1
       THEN currentYear' = currentYear - 1 /\ currentMonth' = 12
       ELSE currentYear' = currentYear /\ currentMonth' = currentMonth - 1
    /\ UNCHANGED <<screenVars, normalizerVars, timezoneOffset, trend, trendData, readerVars>>
    /\ UNCHANGED <<summaryVars, storageVars, nextId, client, scanVars, exportVars>>

\* handleNextMonth
HandleNextMonth ==
    /\ trend.pc = "idle"
    /\ <<currentYear, currentMonth>> # <<LastAnchor.year, LastAnchor.month>>
    /\ IF currentMonth = 12
       THEN currentYear' = currentYear + 1 /\ currentMonth' = 1
       ELSE currentYear' = currentYear /\ currentMonth' = currentMonth + 1
    /\ UNCHANGED <<screenVars, normalizerVars, timezoneOffset, trend, trendData, readerVars>>
    /\ UNCHANGED <<summaryVars, storageVars, nextId, client, scanVars, exportVars>>

\* useEffect(() => { getMonthlyTrendData().then(setTrendData) }, [currentYear,
\* currentMonth]): the function is called for the months shown, and its first
\* getEntriesByMonth is awaited.
GetMonthlyTrendData ==
    /\ trend.pc = "idle"
    /\ <<trend.year, trend.month>> # <<currentYear, currentMonth>>
    /\ trend' = [TrendIdle EXCEPT !.pc = "getEntriesByMonth", !.year = currentYear,
                                  !.month = currentMonth, !.i = 5]
    /\ UNCHANGED <<screenVars, normalizerVars, timezoneOffset, currentYear, currentMonth,
                   trendData, readerVars>>
    /\ UNCHANGED <<summaryVars, storageVars, nextId, client, scanVars, exportVars>>

\* getEntriesByMonth(year, month) returns: the total is pushed with its label,
\* and the loop goes on to the next month or, after i = 0, the function
\* returns and setTrendData is called with its result.
TrendFetchSettles ==
    /\ trend.pc = "getEntriesByMonth"
    /\ \E readOk \in BOOLEAN :
           LET ym == TrendMonth(trend.year, trend.month, trend.i)
               entries == getEntriesByMonth(loadEntries(readOk, entriesItem),
                                            ym.year, ym.month, timezoneOffset)
               data == Append(trend.data, TotalAmount(entries))
               labels == Append(trend.labels, TrendLabel(ym.month))
           IN IF trend.i > 0
              THEN /\ trend' = [trend EXCEPT !.i = trend.i - 1, !.data = data,
                                             !.labels = labels,
                                             !.readFailed = @ \/ ~readOk]
                   /\ UNCHANGED trendData
              ELSE /\ trend' = [trend EXCEPT !.pc = "idle", !.data = data,
                                             !.labels = labels,
                                             !.readFailed = @ \/ ~readOk]
                   /\ trendData' = [data |-> data, labels |-> labels]
    /\ UNCHANGED <<screenVars, normalizerVars, timezoneOffset, currentYear, currentMonth, readerVars>>
    /\ UNCHANGED <<summaryVars, storageVars, nextId, client, scanVars, exportVars>>

(***************************************************************************)
(* normalizeCategoryName, called with one argument.                        *)
(***************************************************************************)
\* normalizeCategoryName(suggestedCategory) is called and returns.
NormalizeCategoryName ==
    /\ normalizedName = <<>>
    /\ normalizedName' = <<normalizeCategoryName(argSuggested)>>
    /\ UNCHANGED <<screenVars, argSuggested, analyticsVars, readerVars>>
    /\ UNCHANGED <<summaryVars, storageVars, nextId, client, scanVars, exportVars>>

NormalizerIdle == argSuggested = <<>> /\ normalizedName = <<>>

\* The analytics screen before its first render, on a device in Japan (UTC+9).
\* Nothing computed or loaded by the analytics screen yet.
ScreenIdle ==
    /\ categoryData = <<>>
    /\ monthlyEntries = <<>>
    /\ pendingLoads = {}
    /\ loadFailed = FALSE
    /\ renders = 0

AnalyticsIdle ==
    /\ timezoneOffset = -540
    /\ currentYear = 2026
    /\ currentMonth = 1
    /\ trend = TrendIdle
    /\ trendData = [data |-> <<>>, labels |-> <<>>]
    /\ ScreenIdle

ReaderIdleAtStart == reader = ReaderIdle /\ defaultWrites = 0

SummaryIdle ==
    /\ argEntries = <<>>
    /\ argCategories = <<>>
    /\ argYear = 2026
    /\ argMonth = 1
    /\ monthlySummary = <<>>

\* A fresh installation: nothing stored, nothing in progress.
InitStore ==
    /\ SummaryIdle
    /\ entriesItem = <<>>
    /\ categoriesItem = <<>>
    /\ nextId = 1
    /\ client = ClientIdle
    /\ isAnalyzing = FALSE
    /\ scan = [f \in Flows |-> FlowIdle]
    /\ isExporting = FALSE
    /\ export = ExportIdle
    /\ NormalizerIdle
    /\ AnalyticsIdle
    /\ ReaderIdleAtStart

NextStore ==
    \/ CallAddEntry
    \/ CallUpdateEntry
    \/ CallDeleteEntry
    \/ ClientLoadEntries
    \/ ClientSaveEntries
    \/ CallUpdateCategory
    \/ CallDeleteCategory
    \/ ClientLoadCategories
    \/ ClientBootstrapCategories
    \/ ClientSaveCategories

SpecStore == InitStore /\ [][NextStore]_vars

(***************************************************************************)
(* The categories collection: a caller of addCategory, updateCategory,     *)
(* deleteCategory and clearAllData, and a screen that reads the categories *)
(* meanwhile, from a fresh installation.                                   *)
(***************************************************************************)
InitCategories == InitStore

NextCategories ==
    \/ CallAddCategory
    \/ CallUpdateCategory
    \/ CallDeleteCategory
    \/ CallClearAllData
    \/ ClientLoadCategories
    \/ ClientBootstrapCategories
    \/ ClientSaveCategories
    \/ ClientClearSettles
    \/ ReaderCallsLoadCategories
    \/ ReaderGetItemSettles
    \/ ReaderBootstrapSettles

SpecCategories == InitCategories /\ [][NextCategories]_vars

(***************************************************************************)
(* The scan screen and another caller of the store (the home screen's      *)
(* deleteEntry), from a fresh installation.                                *)
(***************************************************************************)
\* The invocation of the scan screen's handlers that runs in Spec.
MainFlows == {"f1"}

Init == InitStore

Next ==
    \/ \E f \in MainFlows : HandleTakePhoto(f)
    \/ \E f \in MainFlows : HandlePickImage(f)
    \/ \E f \in MainFlows : ImageSettles(f)
    \/ \E f \in MainFlows : AnalysisSettles(f)
    \/ \E f \in MainFlows : AddEntryLoads(f)
    \/ \E f \in MainFlows : AddEntrySaves(f)
    \/ CallDeleteEntry
    \/ ClientLoadEntries
    \/ ClientSaveEntries

Spec == Init /\ [][Next]_vars

(***************************************************************************)
(* The scan screen tapped while an earlier tap is still at work, from a    *)
(* fresh installation.                                                     *)
(***************************************************************************)
\* A fresh installation in which the run generates the last two entry
\* identifiers.
InitRace ==
    /\ SummaryIdle
    /\ entriesItem = <<>>
    /\ categoriesItem = <<>>
    /\ nextId = MaxIds - 1
    /\ client = ClientIdle
    /\ isAnalyzing = FALSE
    /\ scan = [f \in Flows |-> FlowIdle]
    /\ isExporting = FALSE
    /\ export = ExportIdle
    /\ NormalizerIdle
    /\ AnalyticsIdle
    /\ ReaderIdleAtStart

NextRace ==
    \/ \E f \in Flows : HandleTakePhoto(f)
    \/ \E f \in Flows : HandlePickImage(f)
    \/ \E f \in Flows : ImageSettles(f)
    \/ \E f \in Flows : AnalysisSettles(f)
    \/ \E f \in Flows : AddEntryLoads(f)
    \/ \E f \in Flows : AddEntrySaves(f)

SpecRace == InitRace /\ [][NextRace]_vars

(***************************************************************************)
(* The scan screen whose awaited calls all settle: the analysis call and   *)
(* the storage calls of every invocation eventually resolve or reject.     *)
(***************************************************************************)
CallsSettle ==
    \A f \in Flows :
        /\ WF_vars(AnalysisSettles(f))
        /\ WF_vars(AddEntryLoads(f))
        /\ WF_vars(AddEntrySaves(f))

SpecSettling == InitRace /\ [][NextRace]_vars /\ CallsSettle

(***************************************************************************)
(* The settings screen's export, over the stores an installation can hold. *)
(***************************************************************************)
\* The entries the scan screen stores for a result, with ids from 1 on.
RECURSIVE ScannedEntries(_, _)
ScannedEntries(items, firstId) ==
    IF items = <<>> THEN <<>>
    ELSE <<kakeiboEntry(items[1], firstId)>> \o ScannedEntries(Tail(items), firstId + 1)

\* A line item whose name holds a comma.
ItemPan ==
    [date |-> "2026-01-05", itemName |-> "pan,gyuunyuu", amount |-> 300,
     suggestedCategory |-> <<"shokuhi">>]

\* A line item whose name holds double quotes.
ItemTokubai ==
    [date |-> "2026-01-06", itemName |-> "\"tokubai\"gyuunyuu", amount |-> 198,
     suggestedCategory |-> <<"shokuhi">>]

\* An entry that updateEntry gave a note (memo = メモ).
NotedEntry == [ManualEntry(1) EXCEPT !.note = "memo", !.updatedAt = "updated"]

\* The results whose entries the store holds when the export starts.
ExportResults ==
    AnalysisResults \cup { <<ItemPan>>, <<ItemSuupaa, ItemPan, ItemRanchi>>,
                           <<ItemTokubai>>, <<ItemPan, ItemTokubai>> }

InitExport ==
    /\ SummaryIdle
    /\ entriesItem \in {<<>>, <<JSONstringify(<<NotedEntry>>)>>} \cup
           {<<JSONstringify(ScannedEntries(r, 1))>> : r \in ExportResults}
    /\ categoriesItem \in {<<>>, <<JSONstringify(defaultCategories)>>}
    /\ nextId = 1
    /\ client = ClientIdle
    /\ isAnalyzing = FALSE
    /\ scan = [f \in Flows |-> FlowIdle]
    /\ isExporting = FALSE
    /\ export = ExportIdle
    /\ NormalizerIdle
    /\ AnalyticsIdle
    /\ ReaderIdleAtStart

NextExport ==
    \/ HandleExportCSV
    \/ ExportLoadsEntries
    \/ ExportLoadsCategories
    \/ ExportBootstrapsCategories
    \/ ExportWriteSettles
    \/ ExportShareSettles

SpecExport == InitExport /\ [][NextExport]_vars

(***************************************************************************)
(* normalizeCategoryName over the guesses of the vision service.           *)
(***************************************************************************)
\* The pieces the guesses are made of: keywords of the table, of several
\* categories and at several places of it, and texts that are in no keyword.
NormalizerWords ==
    {"", " ", "Food", "de", "dai", "shokuzai", "gaishoku", "densha", "gasorin",
     "gasu", "denki", "koutsuu", "tsuushinhi", "kusuri", "sonota"}

\* suupaa de shokuzai kounyuu = スーパーで食材購入
ExampleGuess == <<"suupaa", "de", "shokuzai", "kounyuu">>

NormalizerInputs ==
    {<<>>} \cup {<<phrase>> : phrase \in SeqsUpTo(NormalizerWords, MaxWords)}
           \cup {<<ExampleGuess>>}

InitNormalizer ==
    /\ argSuggested \in NormalizerInputs
    /\ normalizedName = <<>>
    /\ SummaryIdle
    /\ AnalyticsIdle
    /\ ReaderIdleAtStart
    /\ entriesItem = <<>>
    /\ categoriesItem = <<>>
    /\ nextId = 1
    /\ client = ClientIdle
    /\ isAnalyzing = FALSE
    /\ scan = [f \in Flows |-> FlowIdle]
    /\ isExporting = FALSE
    /\ export = ExportIdle

NextNormalizer == NormalizeCategoryName

SpecNormalizer == InitNormalizer /\ [][NextNormalizer]_vars

(***************************************************************************)
(* The analytics screen's trend, over the stores an installation can hold  *)
(* and the time zones of a device.                                         *)
(***************************************************************************)
\* Entries of the store, by date and amount: the last day of a month and the
\* first day of the next, around the months the screen shows.
TrendEntries ==
    { [id |-> 1, date |-> "2025-07-31", itemName |-> "densha", amount |-> 100,
       categoryId |-> "koutsuuhi", updatedAt |-> "created"],
      [id |-> 2, date |-> "2025-08-01", itemName |-> "suupaa", amount |-> 200,
       categoryId |-> "shokuhi", updatedAt |-> "created"],
      [id |-> 3, date |-> "2025-12-31", itemName |-> "kusuri", amount |-> 400,
       categoryId |-> "iryouhi", updatedAt |-> "created"],
      [id |-> 4, date |-> "2026-01-01", itemName |-> "ranchi", amount |-> 800,
       categoryId |-> "shokuhi", updatedAt |-> "created"] }

\* getTimezoneOffset() in Japan (UTC+9) and in New York (UTC-5).
TimezoneOffsets == {-540, 300}

InitTrend ==
    /\ entriesItem \in {<<>>} \cup
           {<<JSONstringify(entries)>> : entries \in SeqsUpTo(TrendEntries, MaxEntries)}
    /\ timezoneOffset \in TimezoneOffsets
    /\ currentYear = 2026
    /\ currentMonth = 1
    /\ trend = TrendIdle
    /\ trendData = [data |-> <<>>, labels |-> <<>>]
    /\ ScreenIdle
    /\ SummaryIdle
    /\ NormalizerIdle
    /\ ReaderIdleAtStart
    /\ categoriesItem = <<>>
    /\ nextId = 1
    /\ client = ClientIdle
    /\ isAnalyzing = FALSE
    /\ scan = [f \in Flows |-> FlowIdle]
    /\ isExporting = FALSE
    /\ export = ExportIdle

NextTrend ==
    \/ HandlePreviousMonth
    \/ HandleNextMonth
    \/ GetMonthlyTrendData
    \/ TrendFetchSettles

SpecTrend == InitTrend /\ [][NextTrend]_vars

(***************************************************************************)
(* The inputs of calculateMonthlySummary.                                  *)
(***************************************************************************)
\* KakeiboEntry.amount is a number; nothing in the source keeps it >= 0.
SummaryAmounts == {-1, 0, 1}

\* categoryId of an entry: the id of a category, or (scan.tsx) a category name
SummaryCategoryIds == {DefaultId(0), DefaultId(1), "shokuhi"}

SummaryEntries == [amount : SummaryAmounts, categoryId : SummaryCategoryIds]

\* The category store does not keep ids distinct (addCategory pushes).
SummaryCategories ==
    { [id |-> DefaultId(0), name |-> "shokuhi", color |-> "#FF6B6B"],
      [id |-> DefaultId(1), name |-> "nichiyouhin", color |-> "#4ECDC4"],
      [id |-> DefaultId(0), name |-> "custom", color |-> "#000000"] }

\* Februaries of a leap year, a common year and the century years 2000 and
\* 2100, a month of 30 days and a month of 31.
SummaryMonths ==
    { <<2024, 2>>, <<2025, 2>>, <<2000, 2>>, <<2100, 2>>, <<2025, 4>>, <<2025, 12>> }

InitSummary ==
    /\ argEntries \in SeqsUpTo(SummaryEntries, MaxEntries)
    /\ argCategories \in SeqsUpTo(SummaryCategories, MaxCats)
    /\ \E ym \in SummaryMonths : argYear = ym[1] /\ argMonth = ym[2]
    /\ monthlySummary = <<>>
    /\ entriesItem = <<>>
    /\ categoriesItem = <<>>
    /\ nextId = 1
    /\ client = ClientIdle
    /\ isAnalyzing = FALSE
    /\ scan = [f \in Flows |-> FlowIdle]
    /\ isExporting = FALSE
    /\ export = ExportIdle
    /\ NormalizerIdle
    /\ AnalyticsIdle
    /\ ReaderIdleAtStart

\* setMonthlySummary(calculateMonthlySummary(...))
CalculateMonthlySummary ==
    /\ monthlySummary = <<>>
    /\ monthlySummary' =
           <<calculateMonthlySummary(argEntries, argCategories, argYear, argMonth)>>
    /\ UNCHANGED <<argEntries, argCategories, argYear, argMonth>>
    /\ UNCHANGED <<screenVars, normalizerVars, analyticsVars, readerVars>>
    /\ UNCHANGED <<storageVars, nextId, client, scanVars, exportVars>>

NextSummary == CalculateMonthlySummary

SpecSummary == InitSummary /\ [][NextSummary]_vars

(***************************************************************************)
(* The category breakdowns of the home screen and of the analytics screen  *)
(* (getCategoryData), over the same inputs, for one month.                 *)
(***************************************************************************)
\* The values of getCategoryData's categoryMap, in insertion order, with the
\* amounts of the entries added.
CategoryDataValues(categories, entries) ==
    LET keys == CategoryMapKeys(categories)
    IN [i \in DOMAIN keys |->
           [name |-> CategoryMapValue(categories, keys[i]).name,
            color |-> CategoryMapValue(categories, keys[i]).color,
            amount |-> CategoryAmount(entries, keys[i])]]

\* getCategoryData: Array.from(categoryMap.values()).filter(...).sort(...)
getCategoryData(categories, entries) ==
    SortByAmountDesc(SelectSeq(CategoryDataValues(categories, entries), KeepItem))

\* The analytics screen renders: getCategoryData() is called.
GetCategoryData ==
    /\ categoryData = <<>>
    /\ categoryData' = <<getCategoryData(argCategories, argEntries)>>
    /\ UNCHANGED <<monthlyEntries, pendingLoads, loadFailed, renders>>
    /\ UNCHANGED <<summaryVars, normalizerVars, analyticsVars, readerVars>>
    /\ UNCHANGED <<storageVars, nextId, client, scanVars, exportVars>>

InitBreakdown == InitSummary /\ argYear = 2025 /\ argMonth = 12

NextBreakdown ==
    \/ CalculateMonthlySummary
    \/ GetCategoryData

SpecBreakdown == InitBreakdown /\ [][NextBreakdown]_vars

(***************************************************************************)
(* The home screen's loadData over the stores the scan screen leaves: the  *)
(* categories and the entries of the current month are loaded and the      *)
(* monthly summary is computed.                                            *)
(***************************************************************************)
\* loadData is called: Promise.all([loadEntries(), loadCategories()]) is
\* awaited (what loadEntries returns goes to setEntries only).
HomeLoadData ==
    /\ reader.pc = "idle"
    /\ monthlySummary = <<>>
    /\ reader' = [reader EXCEPT !.pc = "home_loadCategories"]
    /\ UNCHANGED <<screenVars, normalizerVars, analyticsVars, defaultWrites>>
    /\ UNCHANGED <<summaryVars, storageVars, nextId, client, scanVars, exportVars>>

\* loadCategories: getItem settles.  The stored categories are returned, a
\* failure is answered with [], and with nothing stored the defaults are
\* saved first.  Then getEntriesByMonth is awaited.
HomeLoadsCategories ==
    /\ reader.pc = "home_loadCategories"
    /\ \E readOk \in BOOLEAN :
           IF readOk /\ categoriesItem = <<>>
           THEN /\ reader' = [reader EXCEPT !.pc = "home_bootstrapCategories"]
                /\ UNCHANGED argCategories
           ELSE /\ reader' = [reader EXCEPT !.pc = "home_getEntriesByMonth"]
                /\ argCategories' = IF readOk THEN JSONparse(categoriesItem[1]) ELSE <<>>
    /\ UNCHANGED <<screenVars, normalizerVars, analyticsVars, defaultWrites>>
    /\ UNCHANGED <<argEntries, argYear, argMonth, monthlySummary>>
    /\ UNCHANGED <<storageVars, nextId, client, scanVars, exportVars>>

\* loadCategories: saveCategories(defaultCategories) settles.
HomeBootstrapsCategories ==
    /\ reader.pc = "home_bootstrapCategories"
    /\ \E writeOk \in BOOLEAN :
           IF writeOk
           THEN /\ categoriesItem' = <<JSONstringify(defaultCategories)>>
                /\ defaultWrites' = CountDefaultWrite(defaultWrites)
                /\ argCategories' = defaultCategories
           ELSE /\ categoriesItem' = categoriesItem
                /\ defaultWrites' = defaultWrites
                /\ argCategories' = <<>>
    /\ reader' = [reader EXCEPT !.pc = "home_getEntriesByMonth"]
    /\ UNCHANGED <<screenVars, normalizerVars, analyticsVars>>
    /\ UNCHANGED <<argEntries, argYear, argMonth, monthlySummary>>
    /\ UNCHANGED <<entriesItem, nextId, client, scanVars, exportVars>>

\* getEntriesByMonth(currentYear, currentMonth) returns and
\* setMonthlySummary(calculateMonthlySummary(...)) is called.
HomeMonthSettles ==
    /\ reader.pc = "home_getEntriesByMonth"
    /\ \E readOk \in BOOLEAN :
           LET entries == getEntriesByMonth(loadEntries(readOk, entriesItem),
                                            currentYear, currentMonth, timezoneOffset)
           IN /\ argEntries' = entries
              /\ monthlySummary' =
                     <<calculateMonthlySummary(entries, argCategories,
                                               currentYear, currentMonth)>>
    /\ argYear' = currentYear
    /\ argMonth' = currentMonth
    /\ reader' = [reader EXCEPT !.pc = "idle"]
    /\ UNCHANGED argCategories
    /\ UNCHANGED <<screenVars, normalizerVars, analyticsVars, defaultWrites>>
    /\ UNCHANGED <<storageVars, nextId, client, scanVars, exportVars>>

\* A line item for which the vision service gave the text default_0 as its
\* category.
ItemDefaultId ==
    [date |-> "2026-01-07", itemName |-> "kusuri", amount |-> 1200,
     suggestedCategory |-> <<"default_0">>]

\* The results whose entries the store holds when the home screen loads.
HomeResults ==
    (AnalysisResults \ {<<>>}) \cup { <<ItemDefaultId>>, <<ItemSuupaa, ItemDefaultId>> }

InitHome ==
    /\ SummaryIdle
    /\ entriesItem \in {<<JSONstringify(ScannedEntries(r, 1))>> : r \in HomeResults}
    /\ categoriesItem \in {<<>>, <<JSONstringify(defaultCategories)>>}
    /\ nextId = 1
    /\ client = ClientIdle
    /\ isAnalyzing = FALSE
    /\ scan = [f \in Flows |-> FlowIdle]
    /\ isExporting = FALSE
    /\ export = ExportIdle
    /\ NormalizerIdle
    /\ timezoneOffset \in TimezoneOffsets
    /\ currentYear = 2026
    /\ currentMonth = 1
    /\ trend = TrendIdle
    /\ trendData = [data |-> <<>>, labels |-> <<>>]
    /\ ScreenIdle
    /\ ReaderIdleAtStart

NextHome ==
    \/ HomeLoadData
    \/ HomeLoadsCategories
    \/ HomeBootstrapsCategories
    \/ HomeMonthSettles

SpecHome == InitHome /\ [][NextHome]_vars

(***************************************************************************)
(* The analytics screen while the user moves between months: every render  *)
(* with a new (currentYear, currentMonth) runs the three effects, each of  *)
(* which starts a call that has captured the selection of that render; the *)
(* calls in progress settle in any order.                                  *)
(***************************************************************************)
\* The renders with a new selection that are followed.
MaxRenders == 2

\* loadData(), called by useFocusEffect or by useEffect in render n.
LoadDataCall(by, n, year, month) ==
    [by |-> by, render |-> n, year |-> year, month |-> month,
     i |-> 0, data |-> <<>>, labels |-> <<>>]

\* getMonthlyTrendData(), called by the last useEffect in render n: the loop
\* variable i and the arrays data and labels.
TrendCall(n, year, month) ==
    [by |-> "getMonthlyTrendData", render |-> n, year |-> year, month |-> month,
     i |-> 5, data |-> <<>>, labels |-> <<>>]

\* The calls started by the effects with dependencies [currentYear,
\* currentMonth] after render n.
EffectCalls(n, year, month) ==
    { LoadDataCall("useFocusEffect", n, year, month),
      LoadDataCall("useEffect", n, year, month),
      TrendCall(n, year, month) }

\* The screen is mounted and its effects run.
AnalyticsMounts ==
    /\ renders = 0
    /\ renders' = 1
    /\ pendingLoads' = EffectCalls(1, currentYear, currentMonth)
    /\ UNCHANGED <<categoryData, monthlyEntries, loadFailed>>
    /\ UNCHANGED <<normalizerVars, analyticsVars, readerVars>>
    /\ UNCHANGED <<summaryVars, storageVars, nextId, client, scanVars, exportVars>>

\* handlePreviousMonth, the render it causes and the effects of that render.
PreviousMonthPressed ==
    /\ renders \in 1..(MaxRenders - 1)
    /\ <<currentYear, currentMonth>> # <<FirstAnchor.year, FirstAnchor.month>>
    /\ IF currentMonth = 1
       THEN currentYear' = currentYear - 1 /\ currentMonth' = 12
       ELSE currentYear' = currentYear /\ currentMonth' = currentMonth - 1
    /\ renders' = renders + 1
    /\ pendingLoads' = pendingLoads \cup EffectCalls(renders', currentYear', currentMonth')
    /\ UNCHANGED <<categoryData, monthlyEntries, loadFailed>>
    /\ UNCHANGED <<normalizerVars, timezoneOffset, trend, trendData, readerVars>>
    /\ UNCHANGED <<summaryVars, storageVars, nextId, client, scanVars, exportVars>>

\* handleNextMonth, the render it causes and the effects of that render.
NextMonthPressed ==
    /\ renders \in 1..(MaxRenders - 1)
    /\ <<currentYear, currentMonth>> # <<LastAnchor.year, LastAnchor.month>>
    /\ IF currentMonth = 12
       THEN currentYear' = currentYear + 1 /\ currentMonth' = 1
       ELSE currentYear' = currentYear /\ currentMonth' = currentMonth + 1
    /\ renders' = renders + 1
    /\ pendingLoads' = pendingLoads \cup EffectCalls(renders', currentYear', currentMonth')
    /\ UNCHANGED <<categoryData, monthlyEntries, loadFailed>>
    /\ UNCHANGED <<normalizerVars, timezoneOffset, trend, trendData, readerVars>>
    /\ UNCHANGED <<summaryVars, storageVars, nextId, client, scanVars, exportVars>>

\* The Promise.all of a loadData call resolves: setCategories and
\* setMonthlyEntries are called with what loadCategories and
\* getEntriesByMonth(currentYear, currentMonth) of the call's render returned.
LoadDataSettles ==
    \E call \in pendingLoads :
        /\ call.by \in {"useFocusEffect", "useEffect"}
        /\ \E readOk \in BOOLEAN, categoriesOk \in BOOLEAN :
               /\ monthlyEntries' =
                      getEntriesByMonth(loadEntries(readOk, entriesItem),
                                        call.year, call.month, timezoneOffset)
               /\ argCategories' =
                      IF categoriesOk THEN JSONparse(categoriesItem[1]) ELSE <<>>
               /\ loadFailed' = (loadFailed \/ ~readOk)
        /\ pendingLoads' = pendingLoads \ {call}
        /\ UNCHANGED <<categoryData, renders, argEntries, argYear, argMonth, monthlySummary>>
        /\ UNCHANGED <<normalizerVars, analyticsVars, readerVars>>
        /\ UNCHANGED <<storageVars, nextId, client, scanVars, exportVars>>

\* A getEntriesByMonth(year, month) of a getMonthlyTrendData call returns:
\* the total is pushed with its label, and the loop goes on or, after i = 0,
\* the call returns and setTrendData is called with its result.
TrendReadSettles ==
    \E call \in pendingLoads :
        /\ call.by = "getMonthlyTrendData"
        /\ \E readOk \in BOOLEAN :
               LET ym == TrendMonth(call.year, call.month, call.i)
                   entries == getEntriesByMonth(loadEntries(readOk, entriesItem),
                                                ym.year, ym.month, timezoneOffset)
                   data == Append(call.data, TotalAmount(entries))
                   labels == Append(call.labels, TrendLabel(ym.month))
               IN /\ loadFailed' = (loadFailed \/ ~readOk)
                  /\ IF call.i > 0
                     THEN /\ pendingLoads' =
                                 (pendingLoads \ {call}) \cup
                                     {[call EXCEPT !.i = call.i - 1, !.data = data,
                                                   !.labels = labels]}
                          /\ UNCHANGED trendData
                     ELSE /\ pendingLoads' = pendingLoads \ {call}
                          /\ trendData' = [data |-> data, labels |-> labels]
        /\ UNCHANGED <<categoryData, monthlyEntries, renders>>
        /\ UNCHANGED <<normalizerVars, timezoneOffset, currentYear, currentMonth, trend,
                       readerVars>>
        /\ UNCHANGED <<summaryVars, storageVars, nextId, client, scanVars, exportVars>>

\* A store with an entry in one of the months the user moves between.
SelectionStore ==
    <<[id |-> 4, date |-> "2026-01-01", itemName |-> "ranchi", amount |-> 800,
       categoryId |-> "shokuhi", updatedAt |-> "created"]>>

InitSelection ==
    /\ entriesItem = <<JSONstringify(SelectionStore)>>
    /\ categoriesItem = <<JSONstringify(defaultCategories)>>
    /\ AnalyticsIdle
    /\ SummaryIdle
    /\ NormalizerIdle
    /\ ReaderIdleAtStart
    /\ nextId = 1
    /\ client = ClientIdle
    /\ isAnalyzing = FALSE
    /\ scan = [f \in Flows |-> FlowIdle]
    /\ isExporting = FALSE
    /\ export = ExportIdle

NextSelection ==
    \/ AnalyticsMounts
    \/ PreviousMonthPressed
    \/ NextMonthPressed
    \/ LoadDataSettles
    \/ TrendReadSettles

SpecSelection == InitSelection /\ [][NextSelection]_vars

(***************************************************************************)
(* Properties of calculateMonthlySummary, checked under SpecSummary.       *)
(***************************************************************************)
Computed == monthlySummary # <<>>

Breakdown == monthlySummary[1].categoryBreakdown

BreakdownAmountSum == SumSeq([i \in DOMAIN Breakdown |-> Breakdown[i].amount])

\* Numerators of the percentages; within one summary they share a denominator.
BreakdownPercentNumSum ==
    SumSeq([i \in DOMAIN Breakdown |-> Breakdown[i].percentage.num])

KnownCategoryId(id) == \E j \in DOMAIN argCategories : argCategories[j].id = id

AmountsNonNegative == \A i \in DOMAIN argEntries : argEntries[i].amount >= 0

EveryEntryKnown == \A i \in DOMAIN argEntries : KnownCategoryId(argEntries[i].categoryId)

EveryPositiveEntryKnown ==
    \A i \in DOMAIN argEntries :
        argEntries[i].amount > 0 => KnownCategoryId(argEntries[i].categoryId)

\* num/den within 1/100 of 100
RatioNearHundred(num, den) ==
    /\ den > 0
    /\ 100 * (num - 100 * den) <= den
    /\ 100 * (100 * den - num) <= den

\* 0 <= num/den <= 100
RatioInPercentRange(r) == r.den > 0 /\ 0 <= r.num /\ r.num <= 100 * r.den

\* C1 as stated, on entries whose amounts are non-negative as the data model
\* asks: the breakdown amounts sum to at most totalAmount, with equality iff
\* every entry's categoryId is the id of a known category.
C1_SumIffEveryEntryKnown ==
    (Computed /\ AmountsNonNegative) =>
        /\ BreakdownAmountSum <= monthlySummary[1].totalAmount
        /\ (BreakdownAmountSum = monthlySummary[1].totalAmount) <=> EveryEntryKnown

\* C1 amended: for entries with non-negative amounts, the breakdown amounts
\* sum to at most totalAmount, with equality iff every entry with a positive
\* amount has the id of a known category.
C1_SumIffEveryPositiveEntryKnown ==
    (Computed /\ AmountsNonNegative) =>
        /\ BreakdownAmountSum <= monthlySummary[1].totalAmount
        /\ (BreakdownAmountSum = monthlySummary[1].totalAmount)
               <=> EveryPositiveEntryKnown

\* C1 witness: a summary of non-negative entries, one of them of an unknown
\* category, whose non-empty breakdown sums to less than the total.
C1_Witness ==
    /\ Computed
    /\ AmountsNonNegative
    /\ Breakdown # <<>>
    /\ ~EveryPositiveEntryKnown
    /\ BreakdownAmountSum < monthlySummary[1].totalAmount

\* C2 as stated, on entries whose amounts are non-negative as the data model
\* asks: the percentages of a non-empty breakdown sum to 100 within rounding
\* tolerance, and each lies in [0, 100].
C2_PercentagesSumToHundred ==
    (Computed /\ AmountsNonNegative /\ Breakdown # <<>>) =>
        /\ \A i \in DOMAIN Breakdown : RatioInPercentRange(Breakdown[i].percentage)
        /\ RatioNearHundred(BreakdownPercentNumSum, Breakdown[1].percentage.den)

\* C2 amended: for entries with non-negative amounts and a non-empty
\* breakdown, every percentage lies in [0, 100], the percentages sum to
\* 100 * (sum of the breakdown amounts) / totalAmount, which is at most 100,
\* and that sum is 100 iff every entry with a positive amount has the id of a
\* known category.
C2_PercentagesSumToShareOfTotal ==
    (Computed /\ AmountsNonNegative /\ Breakdown # <<>>) =>
        /\ \A i \in DOMAIN Breakdown :
               /\ RatioInPercentRange(Breakdown[i].percentage)
               /\ Breakdown[i].percentage.den = monthlySummary[1].totalAmount
        /\ BreakdownPercentNumSum = 100 * BreakdownAmountSum
        /\ BreakdownPercentNumSum <= 100 * monthlySummary[1].totalAmount
        /\ RatioNearHundred(BreakdownPercentNumSum, monthlySummary[1].totalAmount)
               <=> EveryPositiveEntryKnown

\* C2 witness: a breakdown of two categories whose percentages sum to 100.
C2_Witness ==
    /\ Computed
    /\ AmountsNonNegative
    /\ Len(Breakdown) = 2
    /\ EveryPositiveEntryKnown
    /\ BreakdownPercentNumSum = 100 * monthlySummary[1].totalAmount

\* C3: when totalAmount is 0 no percentage is the result of a division by
\* totalAmount: every category's percentage, before and after the filter on
\* the amount, is 0.
C3_ZeroTotalZeroPercent ==
    (Computed /\ monthlySummary[1].totalAmount = 0) =>
        /\ \A i \in DOMAIN MappedBreakdown(argEntries, argCategories) :
               MappedBreakdown(argEntries, argCategories)[i].percentage = Ratio(0, 1)
        /\ \A i \in DOMAIN Breakdown : Breakdown[i].percentage = Ratio(0, 1)

\* C3 witness: the summary of an empty entry list over known categories.
C3_Witness ==
    /\ Computed
    /\ monthlySummary[1].totalAmount = 0
    /\ argCategories # <<>>
    /\ argEntries = <<>>

(***************************************************************************)
(* Properties of the store's operations, checked under SpecStore, where    *)
(* one caller runs one operation at a time.                                *)
(***************************************************************************)
EntryIdsIn(item) ==
    {loadEntries(TRUE, item)[i].id : i \in DOMAIN loadEntries(TRUE, item)}

CategoryIdsIn(item) ==
    IF item = <<>> THEN {}
    ELSE {JSONparse(item[1])[i].id : i \in DOMAIN JSONparse(item[1])}

DefaultIds == {defaultCategories[i].id : i \in DOMAIN defaultCategories}

ClientReturned(name) == client.name = name /\ client.pc = "idle"

\* C6 as stated: when the read of the entries collection fails during
\* addEntry, updateEntry or deleteEntry, the operation issues no write, ends
\* with an error and leaves the stored collection as it was.
C6_FailedReadAborts ==
    (client.name \in {"addEntry", "updateEntry", "deleteEntry"} /\ client.readFailed) =>
        /\ client.writes = 0
        /\ client.pc = "idle" =>
               /\ client.outcome \in {"notFound", "loadFailed"}
               /\ entriesItem = client.before

\* C10 as stated: updateEntry and updateCategory called with an identifier
\* that is not in the stored collection throw not-found, issue no write and
\* leave the stored collection unchanged.
C10_MissingIdThrowsWithoutWrite ==
    /\ (ClientReturned("updateEntry") /\ client.id \notin EntryIdsIn(client.before)) =>
           /\ client.outcome = "notFound"
           /\ client.writes = 0
           /\ entriesItem = client.before
    /\ (ClientReturned("updateCategory")
           /\ client.catId \notin CategoryIdsIn(client.before)) =>
           /\ client.outcome = "notFound"
           /\ client.writes = 0
           /\ categoriesItem = client.before

\* C10 amended: updateEntry called with an identifier that is not in the
\* stored collection throws not-found, issues no write and leaves the stored
\* collection unchanged, and so does updateCategory when a categories
\* collection is stored.  With none stored, updateCategory whose read succeeds
\* first writes the default categories (loadCategories), and then throws
\* not-found only for an identifier that is none of default_0..default_8,
\* or when that write failed.
C10_MissingIdThrowsUnlessBootstrap ==
    /\ (ClientReturned("updateEntry") /\ client.id \notin EntryIdsIn(client.before)) =>
           /\ client.outcome = "notFound"
           /\ client.writes = 0
           /\ entriesItem = client.before
    /\ (ClientReturned("updateCategory") /\ client.before # <<>>
           /\ client.catId \notin CategoryIdsIn(client.before)) =>
           /\ client.outcome = "notFound"
           /\ client.writes = 0
           /\ categoriesItem = client.before
    /\ (ClientReturned("updateCategory") /\ client.before = <<>>
           /\ ~client.readFailed) =>
           /\ client.writes >= 1
           /\ categoriesItem \in {<<>>, <<JSONstringify(defaultCategories)>>}
                  \/ client.outcome = "ok"
           /\ client.outcome = "notFound" =>
                  client.catId \notin DefaultIds \/ categoriesItem = <<>>
    /\ (ClientReturned("updateCategory") /\ client.before = <<>>
           /\ client.readFailed) =>
           /\ client.outcome = "notFound"
           /\ client.writes = 0
           /\ categoriesItem = client.before

\* C10 witness: updateEntry has thrown not-found for an identifier missing
\* from a stored, non-empty collection that it read.
C10_Witness ==
    /\ ClientReturned("updateEntry")
    /\ client.outcome = "notFound"
    /\ ~client.readFailed
    /\ StoredEntries # <<>>
    /\ client.id \notin EntryIdsIn(client.before)

(***************************************************************************)
(* Properties of the scan screen, checked under Spec.                      *)
(***************************************************************************)
\* The invocation has returned after analyzeKakeiboImage settled.
Analyzed(f) == scan[f].pc = "idle" /\ scan[f].response # <<>>

AnalysisFailed(f) == Analyzed(f) /\ scan[f].response[1].kind # "ok"

AnalysisFound(f, n) ==
    /\ Analyzed(f)
    /\ scan[f].response[1].kind = "ok"
    /\ Len(ResultOf(scan[f])) = n

\* The suggestedCategory of a line item, as normalizeCategoryName takes it.
SuggestedText(suggestedCategory) ==
    IF suggestedCategory = <<>> THEN <<>> ELSE << <<suggestedCategory[1]>> >>

\* C4 as stated: every entry the scan flow persisted, as long as it is not
\* updated, carries as its category the result of normalizeCategoryName on
\* the line item's suggestedCategory, one of the nine canonical names.
C4_PersistedCategoryIsNormalized ==
    \A f \in Flows : \A i \in DOMAIN scan[f].addCalls :
        \A k \in DOMAIN StoredEntries :
            (StoredEntries[k].id = scan[f].addCalls[i].id
                 /\ StoredEntries[k].updatedAt = "created") =>
                /\ StoredEntries[k].categoryId =
                       normalizeCategoryName(
                           SuggestedText(ResultOf(scan[f])[i].suggestedCategory))
                /\ StoredEntries[k].categoryId \in CanonicalNames

\* C7: an invocation whose analysis call failed (encoding, network, HTTP
\* status or unparseable response) has shown exactly one alert, the failure
\* alert, has called addEntry zero times and has issued no write.
C7_FailedAnalysisOneAlertNoWrite ==
    \A f \in Flows :
        AnalysisFailed(f) =>
            /\ scan[f].alerts = <<"erraa_kaiseki">>
            /\ scan[f].addCalls = <<>>
            /\ scan[f].writes = 0

\* C7 witness: the analysis of a second image fails on a non-OK HTTP status
\* while the store holds the entries of the first.
C7_Witness ==
    /\ AnalysisFailed("f1")
    /\ scan["f1"].response[1].kind = "httpError"
    /\ scan["f1"].alerts = <<"erraa_kaiseki">>
    /\ StoredEntries # <<>>

\* C8: an invocation whose analysis succeeded with zero line items has shown
\* the nothing-found alert and no other, has called addEntry zero times, has
\* issued no write, and isAnalyzing is false.
C8_EmptyResultNothingFound ==
    \A f \in Flows :
        AnalysisFound(f, 0) =>
            /\ scan[f].alerts = <<"kaiseki_kekka">>
            /\ scan[f].addCalls = <<>>
            /\ scan[f].writes = 0
            /\ isAnalyzing = FALSE

\* C8 witness: an analysis has returned zero line items.
C8_Witness ==
    /\ AnalysisFound("f1", 0)
    /\ scan["f1"].alerts = <<"kaiseki_kekka">>
    /\ ~isAnalyzing

\* addEntry was called once per line item, in result order, with the item's
\* date, itemName and amount, each entry under an identifier of its own.
AddCallsFollowResult(fl) ==
    /\ Len(fl.addCalls) = Len(ResultOf(fl))
    /\ \A i \in DOMAIN fl.addCalls :
           /\ fl.addCalls[i].date = ResultOf(fl)[i].date
           /\ fl.addCalls[i].itemName = ResultOf(fl)[i].itemName
           /\ fl.addCalls[i].amount = ResultOf(fl)[i].amount
    /\ \A i, j \in DOMAIN fl.addCalls : fl.addCalls[i].id = fl.addCalls[j].id => i = j

\* C9: when an invocation whose analysis returned N >= 1 line items returns
\* and none of its storage calls failed and no other writer wrote meanwhile,
\* addEntry was called exactly N times in result order and the stored
\* collection is then the previous collection followed by the N new entries.
C9_IngestionAppendsInOrder ==
    [][\A f \in Flows :
          (scan[f].pc = "addEntry_saveEntries" /\ scan'[f].pc = "idle"
               /\ scan'[f].alone) =>
              /\ scan'[f].alerts = <<"kaiseki_kanryou">>
              /\ scan'[f].writes = Len(ResultOf(scan'[f]))
              /\ AddCallsFollowResult(scan'[f])
              /\ loadEntries(TRUE, entriesItem') =
                     loadEntries(TRUE, scan'[f].before) \o scan'[f].addCalls]_vars

\* C9 witness: two line items were ingested, undisturbed, into a store that
\* held an entry, and the store is that entry followed by the two new ones.
C9_Witness ==
    /\ AnalysisFound("f1", 2)
    /\ scan["f1"].alone
    /\ scan["f1"].alerts = <<"kaiseki_kanryou">>
    /\ loadEntries(TRUE, scan["f1"].before) # <<>>
    /\ StoredEntries = loadEntries(TRUE, scan["f1"].before) \o scan["f1"].addCalls

\* The days of a month of the Gregorian calendar.
CalendarDays(year, month) ==
    LET days == <<31, 28, 31, 30, 31, 30, 31, 31, 30, 31, 30, 31>>
        leap == year % 400 = 0 \/ (year % 4 = 0 /\ year % 100 # 0)
    IN IF month = 2 /\ leap THEN 29 ELSE days[month]

\* C18: averageDailySpending is totalAmount divided by the number of calendar
\* days of (year, month), 28, 29, 30 or 31: total / N for a month of N days,
\* and 0 for a month with no entries.
C18_AverageOverCalendarDays ==
    Computed =>
        /\ monthlySummary[1].averageDailySpending =
               Ratio(monthlySummary[1].totalAmount, CalendarDays(argYear, argMonth))
        /\ monthlySummary[1].totalAmount = TotalAmount(argEntries)
        /\ argEntries = <<>> => monthlySummary[1].averageDailySpending.num = 0

\* C18 witness: a total of 2 in February 2024 is averaged over 29 days.
C18_Witness ==
    /\ Computed
    /\ argYear = 2024 /\ argMonth = 2
    /\ monthlySummary[1].totalAmount = 2
    /\ monthlySummary[1].averageDailySpending = Ratio(2, 29)

(***************************************************************************)
(* Further properties of the store, checked under SpecStore.               *)
(***************************************************************************)
\* C11 as stated: deleteEntry and deleteCategory called with an identifier
\* that is not in the stored collection end with a not-found error.
C11_DeleteMissingIdThrows ==
    /\ (ClientReturned("deleteEntry") /\ client.id \notin EntryIdsIn(client.before)) =>
           client.outcome = "notFound"
    /\ (ClientReturned("deleteCategory")
            /\ client.catId \notin CategoryIdsIn(client.before)) =>
           client.outcome = "notFound"

\* entry[field], undefined when the object has no such field
Field(object, field) == IF field \in DOMAIN object THEN object[field] ELSE Undefined

EntryFields ==
    {"id", "date", "itemName", "amount", "categoryId", "categoryName", "note",
     "imageUri", "createdAt", "updatedAt"}

SameEntry(a, b) == \A field \in EntryFields : Field(a, field) = Field(b, field)

\* C12 as stated: after addEntry(e) has completed, with no other writer, the
\* collection loadEntries returns contains e with every field unchanged, and
\* the entries stored before are all there, unchanged and in their order.
C12_AddEntryRoundTrip ==
    (ClientReturned("addEntry") /\ client.outcome = "ok") =>
        LET previous == loadEntries(TRUE, client.before)
            WasStored(entry) == \E j \in DOMAIN previous : previous[j] = entry
        IN /\ \E i \in DOMAIN StoredEntries : SameEntry(StoredEntries[i], client.arg[1])
           /\ SelectSeq(StoredEntries, WasStored) = previous

\* The same, for the calls whose read of the collection succeeded.
AddEntryRoundTripAfterRead ==
    (ClientReturned("addEntry") /\ client.outcome = "ok" /\ ~client.readFailed) =>
        /\ Len(StoredEntries) = Len(loadEntries(TRUE, client.before)) + 1
        /\ SameEntry(StoredEntries[Len(StoredEntries)], client.arg[1])
        /\ SubSeq(StoredEntries, 1, Len(StoredEntries) - 1) =
               loadEntries(TRUE, client.before)

(***************************************************************************)
(* Properties of the categories collection, checked under SpecCategories.  *)
(***************************************************************************)
\* C13 as stated: whatever addCategory, updateCategory, deleteCategory and
\* loadCategories calls were made, no two categories of the stored collection
\* have the same identifier.
C13_CategoryIdsUnique ==
    \A i, j \in DOMAIN StoredCategories :
        StoredCategories[i].id = StoredCategories[j].id => i = j

\* C14 as stated: the default categories are written to storage at most once,
\* whatever store operations follow the first loadCategories (category add,
\* update and delete, further and concurrent reads, clearAllData).
C14_DefaultsWrittenOnce == defaultWrites <= 1

(***************************************************************************)
(* Properties of normalizeCategoryName, checked under SpecNormalizer.      *)
(***************************************************************************)
Normalized == normalizedName # <<>>

\* The characters of the guess, none for an absent one.
GuessChars == IF argSuggested = <<>> THEN <<>> ELSE PhraseChars(argSuggested[1])

\* The guess holds the characters of the key at some place.
HoldsKey(guess, key) ==
    \E from \in 1..Len(guess) :
        /\ from + Len(Chars(key)) - 1 <= Len(guess)
        /\ \A k \in 1..Len(Chars(key)) : guess[from + k - 1] = Chars(key)[k]

HoldsNoKey(guess) == \A i \in DOMAIN categoryMap : ~HoldsKey(guess, categoryMap[i].key)

\* C15: for every guess (undefined, empty, blank or any text) the function
\* returns one of the nine canonical names, and it returns the catch-all
\* 'sonota' when the guess is absent or empty or holds no keyword of the table.
C15_NormalizeTotal ==
    Normalized =>
        /\ normalizedName[1] \in CanonicalNames
        /\ (GuessChars = <<>> \/ HoldsNoKey(GuessChars)) => normalizedName[1] = "sonota"

\* C15 witness: a blank guess, and a guess of text that holds no keyword,
\* were answered with the catch-all.
C15_Witness ==
    /\ Normalized
    /\ argSuggested \in {<< <<" ">> >>, << <<"Food", "dai">> >>}
    /\ normalizedName[1] = "sonota"

\* C16: for a non-empty guess the function returns the canonical name of the
\* first entry of the table, in declaration order, whose keyword is held by
\* the guess; a guess holding keywords of two categories resolves to the one
\* listed earlier in the table.
C16_FirstTableEntryWins ==
    (Normalized /\ GuessChars # <<>>) =>
        \A i \in DOMAIN categoryMap :
            (/\ HoldsKey(GuessChars, categoryMap[i].key)
             /\ \A j \in 1..(i - 1) : ~HoldsKey(GuessChars, categoryMap[j].key)) =>
                normalizedName[1] = categoryMap[i].value

\* C16 witness: 'densha' (transport) before 'gaishoku' (food) in the guess;
\* food is listed earlier in the table and wins.
C16_Witness ==
    /\ Normalized
    /\ argSuggested = << <<"densha", "gaishoku">> >>
    /\ normalizedName[1] = "shokuhi"

\* The example of the specification: スーパーで食材購入 is food.
ExampleGuessIsFood ==
    (Normalized /\ argSuggested = <<ExampleGuess>>) => normalizedName[1] = "shokuhi"

(***************************************************************************)
(* Properties of getMonthlyTrendData, checked under SpecTrend.             *)
(***************************************************************************)
\* getMonthlyTrendData has returned and its result is in trendData.
TrendReturned == trend.pc = "idle" /\ trend.year # 0

\* The k-th of the six months that end with the anchor, k = 1 the oldest,
\* by counting months from year 0.
WindowMonth(year, month, k) ==
    LET count == year * 12 + (month - 1) - (6 - k)
    IN [year |-> count \div 12, month |-> (count % 12) + 1]

\* The sum of the amounts of the entries whose date is in a month.
SumDatedIn(entries, ym) ==
    SumSeq([i \in DOMAIN entries |->
               IF /\ DateFields(entries[i].date).year = ym.year
                  /\ DateFields(entries[i].date).month = ym.month
               THEN entries[i].amount ELSE 0])

TrendFollowsCalendar ==
    /\ Len(trendData.data) = 6
    /\ Len(trendData.labels) = 6
    /\ \A k \in 1..6 :
           /\ k \in DOMAIN trendData.data
           /\ k \in DOMAIN trendData.labels
           /\ trendData.data[k] =
                  SumDatedIn(StoredEntries, WindowMonth(trend.year, trend.month, k))
           /\ trendData.labels[k] =
                  <<ToString(WindowMonth(trend.year, trend.month, k).month), "gatsu">>

\* C17 as stated: for every anchor month, getMonthlyTrendData (its reads of
\* the store succeeding) returns six points, oldest first, for the months
\* anchor-5 .. anchor across the year boundary; point i is the sum of the
\* amounts of the stored entries dated in the i-th month and its label is
\* that month's number.
C17_TrendSixMonths ==
    (TrendReturned /\ ~trend.readFailed) => TrendFollowsCalendar

\* The same on a device whose local time is not behind UTC.
TrendSixMonthsEastOfGreenwich ==
    (TrendReturned /\ ~trend.readFailed /\ timezoneOffset <= 0) => TrendFollowsCalendar

(***************************************************************************)
(* Properties of the export, checked under SpecExport.                     *)
(***************************************************************************)
\* handleExportCSV has returned.
Exported == export.pc = "idle" /\ export.alerts # <<>>

\* C5 as stated: when the entry store holds zero entries, generateCSV returns
\* header-only text and handleExportCSV shows the no-data alert, writes no
\* file and does not invoke Share.
C5_EmptyStoreNothingExported ==
    StoredEntries = <<>> =>
        /\ export.fileWrites = 0
        /\ export.shares = 0
        /\ Exported => (export.csv = csvHeader /\ export.alerts = <<"ekusupooto">>)

(***************************************************************************)
(* A CSV reader (RFC 4180): fields are separated by ",", records end with  *)
(* "\n"; a field that starts with a double quote runs to the closing one   *)
(* and may hold "," and "\n", and a doubled quote inside it is one quote.  *)
(***************************************************************************)
\* The reader at piece i of the text.  mode is where it is in a field:
\* "start" (nothing read of it yet), "plain" (in an unquoted field), "quoted"
\* (in a quoted field), "closed" (after the closing quote).
RECURSIVE CsvRecordsFrom(_, _, _, _, _, _)
CsvRecordsFrom(text, i, mode, field, record, records) ==
    IF i > Len(text)
    THEN IF mode = "quoted" THEN [ok |-> FALSE, records |-> <<>>]
         ELSE IF mode = "start" /\ record = <<>> THEN [ok |-> TRUE, records |-> records]
         ELSE [ok |-> TRUE, records |-> Append(records, Append(record, field))]
    ELSE LET c == text[i] IN
         CASE mode = "quoted" /\ c = "\"" /\ i < Len(text) /\ text[i + 1] = "\"" ->
                  CsvRecordsFrom(text, i + 2, "quoted", Append(field, c), record, records)
           [] mode = "quoted" /\ c = "\"" ->
                  CsvRecordsFrom(text, i + 1, "closed", field, record, records)
           [] mode = "quoted" ->
                  CsvRecordsFrom(text, i + 1, "quoted", Append(field, c), record, records)
           [] mode # "quoted" /\ c = "," ->
                  CsvRecordsFrom(text, i + 1, "start", <<>>, Append(record, field), records)
           [] mode # "quoted" /\ c = "\n" ->
                  CsvRecordsFrom(text, i + 1, "start", <<>>, <<>>,
                                 Append(records, Append(record, field)))
           [] mode = "start" /\ c = "\"" ->
                  CsvRecordsFrom(text, i + 1, "quoted", <<>>, record, records)
           [] mode \in {"start", "plain"} /\ c # "\"" ->
                  CsvRecordsFrom(text, i + 1, "plain", Append(field, c), record, records)
           [] OTHER -> [ok |-> FALSE, records |-> <<>>]

CsvRecords(text) == CsvRecordsFrom(text, 1, "start", <<>>, <<>>, <<>>)

(***************************************************************************)
(* Properties of generateCSV, checked under SpecExport.                    *)
(***************************************************************************)
\* generateCSV has returned its text to handleExportCSV.
Generated == export.csv # <<>>

\* The lines of a text: the pieces between its line feeds.
RECURSIVE LinesOf(_)
LinesOf(text) ==
    IF \A i \in DOMAIN text : text[i] # "\n" THEN <<text>>
    ELSE LET n == CHOOSE i \in DOMAIN text :
                      text[i] = "\n" /\ \A j \in 1..(i - 1) : text[j] # "\n"
         IN <<SubSeq(text, 1, n - 1)>> \o LinesOf(SubSeq(text, n + 1, Len(text)))

HeaderLine ==
    <<"hizuke", ",", "koumokumei", ",", "kingaku", ",", "kategori", ",", "memo">>

\* The lines of the generated text after the header line: one per row.
RowLines ==
    LET lines == LinesOf(export.csv)
    IN SubSeq(lines, 2, Len(lines) - 1)

\* Line `line` is the row of `entry`: it starts with the entry's date and
\* the quoted item name follows.
RowLineOf(line, entry) ==
    /\ Len(line) >= 3 + Len(Pieces(entry.itemName))
    /\ line[1] = entry.date
    /\ SubSeq(line, 4, 3 + Len(Pieces(entry.itemName))) = Pieces(entry.itemName)

\* A one-to-one pairing of the row lines with the entries.
RowsPairedWith(entries, pairing) ==
    /\ \A i, j \in DOMAIN pairing : pairing[i] = pairing[j] => i = j
    /\ \A i \in DOMAIN pairing : RowLineOf(RowLines[i], entries[pairing[i]])

HoldsComma(text) ==
    /\ \E i \in DOMAIN Pieces(text) : Pieces(text)[i] = ","
    /\ \A i \in DOMAIN Pieces(text) : Pieces(text)[i] \notin {"\"", "\n"}

\* The row line reads back as one record of five columns.
ReadsAsFiveColumns(line) ==
    /\ CsvRecords(line).ok
    /\ Len(CsvRecords(line).records) = 1
    /\ Len(CsvRecords(line).records[1]) = 5

Columns(line) == CsvRecords(line).records[1]

\* C20: for an entry whose item name holds a comma and no quote or line feed
\* (its other fields as the screens of the application store them), the row
\* generateCSV produced reads back, with a CSV reader, as five columns, the
\* second of which is the item name.
C20_CommaLabelRoundTrips ==
    Generated =>
        \A k \in DOMAIN export.entries :
            HoldsComma(export.entries[k].itemName) =>
                /\ Len(RowLines) = Len(export.entries)
                /\ \E i \in DOMAIN RowLines :
                       /\ ReadsAsFiveColumns(RowLines[i])
                       /\ Columns(RowLines[i])[1] = <<export.entries[k].date>>
                       /\ Columns(RowLines[i])[2] = Pieces(export.entries[k].itemName)
                       /\ Columns(RowLines[i])[3] = <<ToString(export.entries[k].amount)>>

\* C20 witness: the row of pan,gyuunyuu was generated and reads back whole.
C20_Witness ==
    /\ Generated
    /\ \E k \in DOMAIN export.entries : export.entries[k].itemName = "pan,gyuunyuu"
    /\ \E i \in DOMAIN RowLines :
           /\ ReadsAsFiveColumns(RowLines[i])
           /\ Columns(RowLines[i])[2] = <<"pan", ",", "gyuunyuu">>

\* The text fields of the row of `entry`: its date, its item name, the name
\* of its category among the categories the export loads (the default
\* ones) and its note.
RowTexts(entry) ==
    <<entry.date, entry.itemName,
      csvCategoryName(defaultCategories, entry.categoryId), csvNote(entry)>>

HoldsDelimiterOrQuote(text) ==
    \E i \in DOMAIN Pieces(text) : Pieces(text)[i] \in {",", "\""}

\* C21: for every entry of which a text field (date, item name, category
\* name, note) holds the delimiter or a double quote, the row generateCSV
\* produced reads back as exactly five columns holding the original values.
C21_QuotedAndEscaped ==
    Generated =>
        \A k \in DOMAIN export.entries :
            (\E t \in DOMAIN RowTexts(export.entries[k]) :
                 HoldsDelimiterOrQuote(RowTexts(export.entries[k])[t])) =>
                \E i \in DOMAIN RowLines :
                    /\ ReadsAsFiveColumns(RowLines[i])
                    /\ Columns(RowLines[i]) =
                           <<Pieces(export.entries[k].date),
                             Pieces(export.entries[k].itemName),
                             <<ToString(export.entries[k].amount)>>,
                             Pieces(RowTexts(export.entries[k])[3]),
                             Pieces(RowTexts(export.entries[k])[4])>>

(***************************************************************************)
(* Properties of the scan screen tapped twice, checked under SpecRace.     *)
(***************************************************************************)
\* analyzeImage is running for invocation f: from setIsAnalyzing(true) to
\* the return of its last addEntry.
InAnalysis(f) ==
    scan[f].pc \in {"analyzeKakeiboImage", "addEntry_loadEntries", "addEntry_saveEntries"}

\* C22: from the scan screen at most one analyzeImage is in progress at any
\* time: while one runs, no tap starts a second one, whatever the order of
\* taps and completions.
C22_OneAnalysisAtATime ==
    Cardinality({f \in Flows : InAnalysis(f)}) <= 1

\* Invocation g's setItem resolves in this step.
FlowWrites(g) ==
    /\ scan[g].pc = "addEntry_saveEntries"
    /\ scan'[g] # scan[g]
    /\ \/ scan'[g].pc = "addEntry_loadEntries"
       \/ Len(scan'[g].alerts) > Len(scan[g].alerts)
          /\ scan'[g].alerts[Len(scan'[g].alerts)] = "kaiseki_kanryou"

\* Invocation g read the collection, and another writer wrote it since.
ReadBeforeOtherWrote(g) ==
    /\ scan[g].pc = "addEntry_saveEntries"
    /\ ~scan[g].readFailed
    /\ scan[g].loaded # StoredEntries

\* C23: when a mutation that read the collection before another one wrote
\* it comes to write, the collection stored is its own copy - what it read
\* followed by its entry - and what the other writer stored meanwhile is
\* lost.
C23_LastWriterWins ==
    [][\A g \in Flows :
           (ReadBeforeOtherWrote(g) /\ FlowWrites(g)) =>
               /\ StoredEntries' = Append(scan[g].loaded, scan[g].addCalls[scan[g].idx])
               /\ \A i \in DOMAIN StoredEntries :
                      (\A j \in DOMAIN scan[g].loaded :
                           scan[g].loaded[j].id # StoredEntries[i].id)
                      => \A j \in DOMAIN StoredEntries' :
                             StoredEntries'[j].id # StoredEntries[i].id]_vars

\* C23 witness: two ingestions have completed, every read and write of
\* theirs succeeding, and the store holds fewer entries than they added.
C23_Witness ==
    /\ \A f \in Flows :
           /\ scan[f].pc = "idle"
           /\ scan[f].alerts = <<"kaiseki_kanryou">>
           /\ ~scan[f].readFailed
    /\ Len(StoredEntries) < Len(scan["f1"].addCalls) + Len(scan["f2"].addCalls)

\* The same with deleteEntry as the late writer (under Spec): the copy it
\* filtered is stored, and an entry added since it read is gone.
DeleteOverwritesAddEntry ==
    [][(/\ client.pc = "saveEntries"
        /\ client.name = "deleteEntry"
        /\ ~client.readFailed
        /\ client.toSave # deleteEntryFilter(StoredEntries, client.id)
        /\ client'.outcome = "ok")
       => StoredEntries' = client.toSave]_vars

(***************************************************************************)
(* Further properties of the scan screen, checked under Spec.              *)
(***************************************************************************)
\* The addEntry in progress for invocation f fails in this step: saveEntries
\* throws, and the catch and finally of analyzeImage run.
AddEntryFails(f) ==
    /\ scan[f].pc = "addEntry_saveEntries"
    /\ scan'[f].pc = "idle"
    /\ ~scan'[f].alone

C25_AnalysisReturnsToIdle ==
    \A f \in Flows : InAnalysis(f) ~> (scan[f].pc = "idle" /\ ~isAnalyzing)

\* C25 witness: one invocation has returned on the success path and one
\* on a failure path, and isAnalyzing is false.
C25_Witness ==
    /\ scan["f1"].pc = "idle"
    /\ scan["f1"].alerts = <<"kaiseki_kanryou">>
    /\ scan["f2"].pc = "idle"
    /\ scan["f2"].alerts = <<"erraa_kaiseki">>
    /\ ~isAnalyzing

(***************************************************************************)
(* The answers of the vision service, checked under Spec.                  *)
(***************************************************************************)
\* The service's text was not JSON, or it was JSON that is not an
\* AIAnalysisResult: no `entries`, or a line item without date or itemName.
Mismatched(response) ==
    \/ response.kind \in {"parseError", "okNoEntries"}
    \/ /\ response.kind = "ok"
       /\ \E i \in DOMAIN response.body.entries :
              \/ response.body.entries[i].date = Undefined
              \/ response.body.entries[i].itemName = Undefined

\* C26: an invocation that met non-JSON text or mismatched JSON from the
\* vision service has shown the failure alert and no other, and has created
\* no entries.
C26_MismatchReportedNothingCreated ==
    \A f \in Flows :
        (Analyzed(f) /\ Mismatched(scan[f].response[1])) =>
            /\ scan[f].alerts = <<"erraa_kaiseki">>
            /\ scan[f].addCalls = <<>>
            /\ scan[f].writes = 0

\* The part of it that holds: non-JSON text and JSON without `entries` are
\* reported as a failure and nothing is created.
UnreadableAnswerReported ==
    \A f \in Flows :
        (Analyzed(f) /\ scan[f].response[1].kind \in {"parseError", "okNoEntries"}) =>
            /\ scan[f].alerts = <<"erraa_kaiseki">>
            /\ scan[f].addCalls = <<>>
            /\ scan[f].writes = 0

(***************************************************************************)
(* Properties of the category breakdowns, checked under SpecBreakdown.     *)
(***************************************************************************)
\* The place of a category id in the category list: its first occurrence.
PlaceInList(id) ==
    CHOOSE i \in DOMAIN argCategories :
        /\ argCategories[i].id = id
        /\ \A j \in DOMAIN argCategories : argCategories[j].id = id => i <= j

\* The ids of the known categories whose entries add up to more than zero.
PositiveCategoryIds ==
    {argCategories[i].id : i \in DOMAIN argCategories}
        \cap {id \in SummaryCategoryIds : CategoryAmount(argEntries, id) > 0}

\* The breakdown of the home screen, as the analytics screen lists it.
BreakdownAsCategoryData ==
    [i \in DOMAIN Breakdown |->
        [name |-> Breakdown[i].categoryName, color |-> Breakdown[i].categoryColor,
         amount |-> Breakdown[i].amount]]

\* C27: the breakdown of calculateMonthlySummary holds exactly the known
\* categories whose accumulated amount is above zero, each once with that
\* amount, in descending order of amount, categories of equal amount in the
\* order of the category list; getCategoryData returns the same list.
C27_BreakdownPositiveSortedStable ==
    Computed =>
        /\ {Breakdown[i].categoryId : i \in DOMAIN Breakdown} = PositiveCategoryIds
        /\ Len(Breakdown) = Cardinality(PositiveCategoryIds)
        /\ \A i \in DOMAIN Breakdown :
               Breakdown[i].amount = CategoryAmount(argEntries, Breakdown[i].categoryId)
        /\ \A i, j \in DOMAIN Breakdown :
               i < j =>
                   /\ Breakdown[i].amount >= Breakdown[j].amount
                   /\ Breakdown[i].amount = Breakdown[j].amount =>
                          PlaceInList(Breakdown[i].categoryId)
                              < PlaceInList(Breakdown[j].categoryId)
        /\ categoryData # <<>> => categoryData[1] = BreakdownAsCategoryData

\* C27 witness: both screens have listed two categories of equal amount, in
\* the order of the category list, and the entries of a third id are left out.
C27_Witness ==
    /\ Computed
    /\ categoryData # <<>>
    /\ Len(categoryData[1]) = 2
    /\ Len(Breakdown) = 2
    /\ Breakdown[1].amount = Breakdown[2].amount
    /\ Breakdown[1].categoryId = argCategories[1].id
    /\ \E i \in DOMAIN argEntries :
           argEntries[i].amount > 0 /\ ~KnownCategoryId(argEntries[i].categoryId)

(***************************************************************************)
(* Properties of the home screen's summary of scanned entries, checked     *)
(* under SpecHome.                                                         *)
(***************************************************************************)
\* The summary was computed with the default categories, which are all the
\* store holds.
SummaryOverDefaults ==
    /\ Computed
    /\ argCategories = defaultCategories
    /\ StoredCategories = defaultCategories

\* The summary counts the entries it was given and adds up their amounts.
CountsAndAddsUp ==
    /\ monthlySummary[1].totalAmount =
           SumSeq([i \in DOMAIN argEntries |-> argEntries[i].amount])
    /\ monthlySummary[1].entryCount = Len(argEntries)

TrendDataFor(year, month) ==
    [data |-> [k \in 1..6 |->
                  TotalAmount(getEntriesByMonth(StoredEntries,
                                                TrendMonth(year, month, 6 - k).year,
                                                TrendMonth(year, month, 6 - k).month,
                                                timezoneOffset))],
     labels |-> [k \in 1..6 |-> TrendLabel(TrendMonth(year, month, 6 - k).month)]]

\* Every call started by the screen has settled, and no read failed.
LoadsSettled == renders > 0 /\ pendingLoads = {} /\ ~loadFailed

\* C29: once every pending load has completed, monthlyEntries and trendData
\* are those of the selected (currentYear, currentMonth), whatever previous
\* and next presses came before and whatever the order in which the loads
\* completed.
C29_SettledOnCurrentSelection ==
    LoadsSettled =>
        /\ monthlyEntries =
               getEntriesByMonth(StoredEntries, currentYear, currentMonth, timezoneOffset)
        /\ trendData = TrendDataFor(currentYear, currentMonth)

\* Without a press, the loads of the mount leave the screen on the month it
\* was opened with.
SettledOnFirstSelection ==
    (LoadsSettled /\ renders = 1) =>
        /\ monthlyEntries =
               getEntriesByMonth(StoredEntries, currentYear, currentMonth, timezoneOffset)
        /\ trendData = TrendDataFor(currentYear, currentMonth)

====
